---- MODULE Spec2Model ----
(***************************************************************************)
(* Model of the VEAP object model of mdzio/go-lib (package veap/model):    *)
(* the object tree (BasicCollection, BasicItem, BasicLinks), the path      *)
(* resolver (EvalPath, GetItem, AbsPath) and the Service facade            *)
(* (ReadPV ... Delete).                                                    *)
(*                                                                         *)
(* Strings are sequences of one-character strings.  Objects are numbers:   *)
(* RootObj is the root, 1..MaxObjects are the objects the program may      *)
(* construct, Nil is the nil interface value.  Every operation is called   *)
(* by a caller that is idle (last.op = "None"), leaves its result in       *)
(* `last`, and the caller takes the result with TakeResult.                *)
(***************************************************************************)
EXTENDS Integers, Sequences, FiniteSets, TLC

VARIABLES kind, ident, coll, objects, putSeq, lobj, last

vars == <<kind, ident, coll, objects, putSeq, lobj, last>>

\* the goroutines that call one collection concurrently: the members of the
\* collection, its RWMutex, and the position and the locals of each
\* goroutine
VARIABLES cobjects, mutex, pc, loc

concVars == <<cobjects, mutex, pc, loc>>

\* the HTTP handler: the request and the configuration of the handler, its
\* position and locals, the response writer, the calls of the Service and
\* the statistics
VARIABLES hreq, hpc, hloc, hresp, hcalls, hstats

httpVars == <<hreq, hpc, hloc, hresp, hcalls, hstats>>

\* a pure function of the packages under test: its input and its output
VARIABLES fin, fout

pureVars == <<fin, fout>>

\* the handler serving requests concurrently: Handler.Stats, the position
\* and the locals of each ServeHTTP goroutine, and what the peers of the
\* handler have sent and received
VARIABLES sstats, spc, sloc, served

statVars == <<sstats, spc, sloc, served>>

\* one call of the Client: the call and the configuration, the position in
\* it, the answer of the HTTP transport and what the call returns
VARIABLES ccall, cpc, cresp, cret

clientVars == <<ccall, cpc, cresp, cret>>

\* DaemonFunc: the positions of the caller and of the goroutine running f,
\* the context, the channel term, the timer of Sleep and the list f appends
\* to
VARIABLES dpc, dctx, dterm, dtimer, df, dlog

daemonVars == <<dpc, dctx, dterm, dtimer, df, dlog>>

\* DaemonPool: the positions of the caller and of the goroutines that Run
\* starts, the context and the WaitGroup of the pool, what each daemon
\* function does, the timer of its Sleep and what its Sleep returned
VARIABLES ppc, pctx, pwg, pplan, ptimer, pres

poolVars == <<ppc, pctx, pwg, pplan, ptimer, pres>>

\* DebouncedFunc: the positions of the callers of Trigger and Cancel, the
\* mutex, the timer, the clock, and what was called: the number of calls
\* of Trigger and Cancel, the time of the last Trigger, whether it is still
\* to be answered by Func (armed) or was canceled, and the number and the
\* time of the calls of Func
VARIABLES bpc, bmtx, btmr, bnow, bcalls

debVars == <<bpc, bmtx, btmr, bnow, bcalls>>

extVars == <<pureVars, statVars, clientVars, daemonVars, poolVars, debVars>>

allVars == <<vars, concVars, httpVars, extVars>>

\* ------------------------------------------------------------------ bounds
\* number of objects the program constructs besides the root
MaxObjects == 2
\* number of segments of a request path
MaxSegs == 2
\* number of goroutines that call the collection concurrently
NumProcs == 2
\* the longest time series given to the history conversions
MaxHist == 2
\* the number of requests the concurrent handler is sent
MaxRequests == 3

\* the most calls of Sleep the daemon function makes
MaxSleeps == 2

\* the most daemon functions a DaemonPool runs
MaxDaemons == 2

\* the most calls of Trigger and Cancel on a DebouncedFunc
MaxTriggers == 3

\* the last tick of the clock of a DebouncedFunc
MaxTime == 4

\* ------------------------------------------------------- status codes
StatusOK == 200
StatusCreated == 201
StatusBadRequest == 400
StatusForbidden == 403
StatusNotFound == 404
StatusMethodNotAllowed == 405
StatusInternalServerError == 500
StatusClientError == 900

\* ------------------------------------------------------------- strings
\* true iff seq s contains x
Contains(s, x) == \E i \in 1..Len(s) : s[i] = x

\* strings.IndexRune / strings.LastIndex for a one-character pattern:
\* the first / last position of c in s, 0 when c does not occur
IndexRune(s, c) ==
    IF Contains(s, c) THEN CHOOSE i \in 1..Len(s) : s[i] = c /\ \A j \in 1..(i - 1) : s[j] # c
    ELSE 0
LastIndex(s, c) ==
    IF Contains(s, c) THEN CHOOSE i \in 1..Len(s) : s[i] = c /\ \A j \in (i + 1)..Len(s) : s[j] # c
    ELSE 0

\* the hexadecimal digits among the characters of the model
IsHex(c) == c \in {"0", "2", "5", "a", "F"}
UnHex(c) == CASE c = "0" -> 0 [] c = "2" -> 2 [] c = "5" -> 5 [] c = "a" -> 10 [] c = "F" -> 15

\* the character with byte value n; bytes outside the alphabet of the model
\* are the characters "x<n>"
ByteChar(n) ==
    CASE n = 32 -> " " [] n = 37 -> "%" [] n = 47 -> "/"
      [] OTHER -> "x" \o ToString(n)

\* url.PathEscape on one character: letters and digits stay, ' ', '/' and
\* '%' become %20, %2F and %25
\* an escape that leaves '%' as it is (fault variant)
EscapeChar_NoPercent(c) ==
    CASE c = " " -> <<"%", "2", "0">>
      [] c = "/" -> <<"%", "2", "F">>
      [] OTHER -> <<c>>

EscapeChar(c) ==
    CASE c = " " -> <<"%", "2", "0">>
      [] c = "/" -> <<"%", "2", "F">>
      [] c = "%" -> <<"%", "2", "5">>
      [] OTHER -> <<c>>

RECURSIVE PathEscape(_)
PathEscape(s) == IF s = <<>> THEN <<>> ELSE EscapeChar(Head(s)) \o PathEscape(Tail(s))

\* url.PathUnescape: every '%' must be followed by two hexadecimal digits
\* (else an EscapeError naming the at most three characters from the '%'),
\* and %XX is replaced by the byte XX
RECURSIVE PathUnescape(_)
PathUnescape(s) ==
    IF s = <<>> THEN [ok |-> TRUE, s |-> <<>>]
    ELSE IF Head(s) = "%"
    THEN IF Len(s) < 3 \/ ~IsHex(s[2]) \/ ~IsHex(s[3])
         THEN [ok |-> FALSE,
               s |-> <<"invalid URL escape ">> \o SubSeq(s, 1, IF Len(s) > 3 THEN 3 ELSE Len(s))]
         ELSE LET r == PathUnescape(SubSeq(s, 4, Len(s)))
              IN IF r.ok
                 THEN [ok |-> TRUE, s |-> <<ByteChar(16 * UnHex(s[2]) + UnHex(s[3]))>> \o r.s]
                 ELSE r
    ELSE LET r == PathUnescape(Tail(s))
         IN IF r.ok THEN [ok |-> TRUE, s |-> <<Head(s)>> \o r.s] ELSE r

\* path.Clean for paths without "." and ".." elements (the request paths of
\* the model have none): repeated slashes collapse, a trailing slash goes,
\* the empty path becomes "."
RECURSIVE CollapseSlashes(_)
CollapseSlashes(s) ==
    IF Len(s) < 2 THEN s
    ELSE IF s[1] = "/" /\ s[2] = "/" THEN CollapseSlashes(Tail(s))
    ELSE <<Head(s)>> \o CollapseSlashes(Tail(s))

Clean(p) ==
    IF p = <<>> THEN <<".">>
    ELSE LET c == CollapseSlashes(p)
         IN IF Len(c) > 1 /\ c[Len(c)] = "/" THEN SubSeq(c, 1, Len(c) - 1) ELSE c

\* path.Dir: everything up to the last slash, cleaned
Dir(p) == Clean(SubSeq(p, 1, LastIndex(p, "/")))

RECURSIVE StripTrailingSlashes(_)
StripTrailingSlashes(p) ==
    IF p # <<>> /\ p[Len(p)] = "/" THEN StripTrailingSlashes(SubSeq(p, 1, Len(p) - 1)) ELSE p

\* path.Base: the last element of the path
Base(p) ==
    IF p = <<>> THEN <<".">>
    ELSE LET q == StripTrailingSlashes(p)
             r == SubSeq(q, LastIndex(q, "/") + 1, Len(q))
         IN IF r = <<>> THEN <<"/">> ELSE r

\* ------------------------------------------------------------- objects
RootObj == 0
Nil == 0 - 1
Pool == 1..MaxObjects
Objs == {RootObj} \cup Pool

\* the types of package model the program instantiates, and AttrItem: a
\* type of the embedding program that has BasicObject, BasicItem and a
\* WriteAttributes method (package model itself has no AttributeWriter)
CollectionKinds == {"Root", "Domain", "LinkedDomain", "ModifiableDomain"}
DomainKinds == {"ModifiableDomain", "LinkedDomain"}
LeafKinds == {"VariableWithHistory", "ROVariable", "AttrItem"}

KindOf(o) == IF o = RootObj THEN "Root" ELSE IF o \in Pool THEN kind[o] ELSE "None"

Constructed(o) == KindOf(o) # "None"

\* the type assertions of the Go code: obj.(Collection), obj.(Item), ...
IsCollection(o) == KindOf(o) \in CollectionKinds
IsItem(o) == o \in Pool /\ Constructed(o)
IsCollectionModifier(o) == KindOf(o) = "ModifiableDomain"
IsLinkReader(o) == KindOf(o) = "LinkedDomain"
IsAttributeWriter(o) == KindOf(o) = "AttrItem"
IsPVReader(o) == KindOf(o) \in {"VariableWithHistory", "ROVariable"}
IsPVWriter(o) == KindOf(o) = "VariableWithHistory"
IsHistoryReader(o) == KindOf(o) = "VariableWithHistory"
IsHistoryWriter(o) == KindOf(o) = "VariableWithHistory"

\* BasicObject.Title: a fixed title per object
GetTitle(o) == <<"title", o>>

\* BasicObject.Identifier; the root's identifier is never part of a path
GetIdentifier(o) == IF o = RootObj THEN <<"r">> ELSE ident[o]

\* BasicCollection.GetItemRole, BasicItem.GetCollectionRole: the defaults
GetItemRole(o) == "item"
GetCollectionRole(o) == "collection"

\* BasicItem.GetCollection
GetCollection(o) == coll[o]

\* identifiers given to the constructors: one with the characters ' ', '/'
\* and '%' that need escaping, a plain one and the empty one
SpecialId == <<" ", "/", "%">>
PlainId == <<"a">>
EmptyId == <<>>

\* what the constructor calls of the model choose from: the embedding
\* program constructs object 1 as a domain and object 2 as a leaf (only a
\* leaf without a collection); every further object is constructed by the
\* CreateFunc of a ModifiableDomain
KindChoices(o) == IF o = 1 THEN DomainKinds ELSE IF o = 2 THEN LeafKinds ELSE {}
IdChoices(o) == IF o = 1 THEN {SpecialId} ELSE {PlainId, SpecialId, EmptyId}
CollectionChoices(o) == IF o = 1 THEN Objs ELSE Objs \cup {Nil}

\* ------------------------------------------------------- the idle result
\* the result of a call: the error (code 0 and an empty message: nil), the
\* capability calls made (object, capability, argument and what the
\* capability returned), the values returned, and for a method of a
\* collection or a link set its receiver
NoResult ==
    [op |-> "None", path |-> <<>>, code |-> 0, msg |-> <<>>, calls |-> <<>>,
     created |-> FALSE, attr |-> <<>>, links |-> <<>>, val |-> <<>>, recv |-> Nil,
     ret |-> Nil, ok |-> FALSE, panic |-> FALSE]

Idle == last.op = "None"

\* veap.NewErrorf(code, ...) as a result
Errorf(code, msg) == [NoResult EXCEPT !.code = code, !.msg = msg]

\* ---------------------------------------------------- BasicCollection
EmptyMap == [k \in {} |-> Nil]

\* c.objects[id] with the zero value nil for a missing key
MapGet(m, id) == IF id \in DOMAIN m THEN m[id] ELSE Nil

MapPut(m, id, o) == [k \in DOMAIN m \cup {id} |-> IF k = id THEN o ELSE m[k]]

\* a delete that leaves the key in the map (fault variant)
MapDelete_Keep(m, id) == m

MapDelete(m, id) == [k \in DOMAIN m \ {id} |-> m[k]]

\* the sequence s without the element x
RECURSIVE SeqWithout(_, _)
SeqWithout(s, x) ==
    IF s = <<>> THEN <<>>
    ELSE IF Head(s) = x THEN SeqWithout(Tail(s), x)
    ELSE <<Head(s)>> \o SeqWithout(Tail(s), x)

\* the sequences that enumerate the finite set S, each element once
RECURSIVE Enumerations(_)
Enumerations(S) ==
    IF S = {} THEN {<<>>}
    ELSE UNION {{<<x>> \o e : e \in Enumerations(S \ {x})} : x \in S}

\* an Items that returns one member less than the map has (fault variant)
Items_DropLast(c) ==
    {[i \in 1..(Len(e) - 1) |-> objects[c][e[i]]] : e \in Enumerations(DOMAIN objects[c])}

\* BasicCollection.Items: the members in the order of one iteration over
\* the Go map, which the language leaves unspecified
Items(c) == {[i \in 1..Len(e) |-> objects[c][e[i]]] : e \in Enumerations(DOMAIN objects[c])}

\* BasicCollection.Item: the member with identifier id, Nil when !ok
Item(c, id) == MapGet(objects[c], id)

\* a PutItem that keeps the member that already has the identifier (fault
\* variant)
PutItemObjects_KeepOld(c, obj) ==
    IF GetIdentifier(obj) \in DOMAIN objects[c] THEN objects
    ELSE [objects EXCEPT ![c] = MapPut(objects[c], GetIdentifier(obj), obj)]

\* the members of collection c after c.PutItem(obj)
PutItemObjects(c, obj) ==
    [objects EXCEPT ![c] = MapPut(objects[c], GetIdentifier(obj), obj)]

\* the order of the PutItem calls that added the current members of c
PutItemSeq(c, id) ==
    [putSeq EXCEPT ![c] = Append(SeqWithout(putSeq[c], id), id)]

\* ------------------------------------------------------- path resolver
RECURSIVE absPathRecursive(_)
absPathRecursive(obj) ==
    IF IsItem(obj)
    THEN absPathRecursive(GetCollection(obj)) \o <<"/">> \o PathEscape(GetIdentifier(obj))
    ELSE <<>>

AbsPath(obj) == LET p == absPathRecursive(obj) IN IF p = <<>> THEN <<"/">> ELSE p

\* a GetItem whose "Item not found" message names the root instead of the
\* container reached (fault variant)
GetItem_RootPath(obj, id) ==
    IF ~IsCollection(obj)
    THEN [obj |-> Nil, code |-> StatusNotFound,
          msg |-> <<"Not a collection: ">> \o AbsPath(obj)]
    ELSE IF Item(obj, id) = Nil
    THEN [obj |-> Nil, code |-> StatusNotFound,
          msg |-> <<"Item not found at ">> \o <<"/">> \o <<": ">> \o id]
    ELSE [obj |-> Item(obj, id), code |-> 0, msg |-> <<>>]

\* GetItem: [obj, code, msg]; the item of a container object
GetItem(obj, id) ==
    IF ~IsCollection(obj)
    THEN [obj |-> Nil, code |-> StatusNotFound,
          msg |-> <<"Not a collection: ">> \o AbsPath(obj)]
    ELSE IF Item(obj, id) = Nil
    THEN [obj |-> Nil, code |-> StatusNotFound,
          msg |-> <<"Item not found at ">> \o AbsPath(obj) \o <<": ">> \o id]
    ELSE [obj |-> Item(obj, id), code |-> 0, msg |-> <<>>]

RECURSIVE evalPathRecursive(_, _)
evalPathRecursive(obj, path) ==
    IF path = <<>> THEN [obj |-> obj, code |-> 0, msg |-> <<>>]
    ELSE LET pos == IndexRune(path, "/")
             id == IF pos # 0 THEN SubSeq(path, 1, pos - 1) ELSE path
             rem == IF pos # 0 THEN SubSeq(path, pos + 1, Len(path)) ELSE <<>>
             u == PathUnescape(id)
         IN IF ~u.ok
            THEN [obj |-> Nil, code |-> StatusBadRequest, msg |-> u.s]
            ELSE LET r == GetItem(obj, u.s)
                 IN IF r.code # 0 THEN r ELSE evalPathRecursive(r.obj, rem)

\* Service.EvalPath: [obj, code, msg]
EvalPath(path) ==
    IF Len(path) < 1 \/ path[1] # "/"
    THEN [obj |-> Nil, code |-> StatusBadRequest,
          msg |-> <<"Path starts not with a slash: ">> \o path]
    ELSE evalPathRecursive(RootObj, Tail(path))

\* --------------------------------------------------------- capabilities
\* what a capability function of the embedding program (ReadPVFunc,
\* WritePVFunc, ..., WriteAttributes) returns: a value and nil, or the zero
\* value and an error
CapOutcomes ==
    {[val |-> <<"value">>, code |-> 0, msg |-> <<>>],
     [val |-> <<>>, code |-> StatusForbidden, msg |-> <<"capability failed">>]}

\* one call of capability cap of object obj
Call(obj, cap, arg, out) == [obj |-> obj, cap |-> cap, arg |-> arg, out |-> out]

\* the result of invoking capability cap of object obj, returned unchanged
Invoke(obj, cap, arg, out) ==
    [NoResult EXCEPT !.code = out.code, !.msg = out.msg, !.val = out.val,
                     !.calls = <<Call(obj, cap, arg, out)>>]

\* Service.ReadPV, WritePV, ReadHistory, WriteHistory
ReadPVResult(path, out) ==
    LET e == EvalPath(path)
    IN IF e.code # 0 THEN Errorf(e.code, e.msg)
       ELSE IF IsPVReader(e.obj) THEN Invoke(e.obj, "ReadPV", <<>>, out)
       ELSE Errorf(StatusMethodNotAllowed, <<"Reading PV not supported: ">> \o path)

\* a WritePV that tests for the PVReader capability (fault variant)
WritePVResult_ReaderCheck(path, out) ==
    LET e == EvalPath(path)
    IN IF e.code # 0 THEN Errorf(e.code, e.msg)
       ELSE IF IsPVReader(e.obj)
            THEN [Invoke(e.obj, "WritePV", <<>>, out) EXCEPT !.val = <<>>]
       ELSE Errorf(StatusMethodNotAllowed, <<"Writing PV not supported: ">> \o path)

WritePVResult(path, out) ==
    LET e == EvalPath(path)
    IN IF e.code # 0 THEN Errorf(e.code, e.msg)
       ELSE IF IsPVWriter(e.obj)
            THEN [Invoke(e.obj, "WritePV", <<>>, out) EXCEPT !.val = <<>>]
       ELSE Errorf(StatusMethodNotAllowed, <<"Writing PV not supported: ">> \o path)

ReadHistoryResult(path, out) ==
    LET e == EvalPath(path)
    IN IF e.code # 0 THEN Errorf(e.code, e.msg)
       ELSE IF IsHistoryReader(e.obj) THEN Invoke(e.obj, "ReadHistory", <<>>, out)
       ELSE Errorf(StatusMethodNotAllowed, <<"Reading History not supported: ">> \o path)

WriteHistoryResult(path, out) ==
    LET e == EvalPath(path)
    IN IF e.code # 0 THEN Errorf(e.code, e.msg)
       ELSE IF IsHistoryWriter(e.obj)
            THEN [Invoke(e.obj, "WriteHistory", <<>>, out) EXCEPT !.val = <<>>]
       ELSE Errorf(StatusMethodNotAllowed, <<"Writing History not supported: ">> \o path)

\* setAttr
setAttr(path, obj, out) ==
    IF IsAttributeWriter(obj)
    THEN [Invoke(obj, "WriteAttributes", <<>>, out) EXCEPT !.val = <<>>]
    ELSE Errorf(StatusMethodNotAllowed, <<"Writing of attributes not supported: ">> \o path)

\* ------------------------------------------------------ ReadProperties
\* attributes: the identifier and the title when they are not empty (the
\* objects of the model have no description and no additional attributes)
Attributes(obj) ==
    [k \in {"title"} \cup (IF GetIdentifier(obj) = <<>> THEN {} ELSE {"identifier"}) |->
        IF k = "title" THEN GetTitle(obj) ELSE GetIdentifier(obj)]

\* one link per item, in the order Items returned them
ItemLinks(obj, items) ==
    [i \in 1..Len(items) |->
        [Role |-> GetItemRole(obj), Target |-> PathEscape(GetIdentifier(items[i])),
         Title |-> GetTitle(items[i])]]

\* the link to the collection of an item
CollectionLink(obj) ==
    <<[Role |-> GetCollectionRole(obj), Target |-> <<".", ".">>,
       Title |-> GetTitle(GetCollection(obj))]>>

\* one link per stored link, in the order ReadLinks returned them
StoredLinks(lks) ==
    [i \in 1..Len(lks) |->
        [Role |-> lks[i][2], Target |-> AbsPath(lks[i][1]), Title |-> GetTitle(lks[i][1])]]

PVServiceLink == <<[Role |-> "service", Target |-> <<"~", "p", "v">>, Title |-> <<"PV Service">>]>>
HistoryServiceLink ==
    <<[Role |-> "service", Target |-> <<"~", "h", "i", "s", "t">>, Title |-> <<"History Service">>]>>

\* BasicLinks.ReadLinks: the stored links in the order of one iteration over
\* the Go map
ReadLinks(l) == Enumerations(lobj[l])

\* a link list with the link to the collection before the links to the
\* items (fault variant)
LinkList_ParentFirst(obj, items, lks) ==
    (IF IsItem(obj) THEN CollectionLink(obj) ELSE <<>>)
    \o (IF IsCollection(obj) THEN ItemLinks(obj, items) ELSE <<>>)
    \o (IF IsLinkReader(obj) THEN StoredLinks(lks) ELSE <<>>)
    \o (IF IsPVReader(obj) \/ IsPVWriter(obj) THEN PVServiceLink ELSE <<>>)
    \o (IF IsHistoryReader(obj) \/ IsHistoryWriter(obj) THEN HistoryServiceLink ELSE <<>>)

\* the link list ReadProperties builds for obj from the results of Items
\* and ReadLinks
LinkList(obj, items, lks) ==
    (IF IsCollection(obj) THEN ItemLinks(obj, items) ELSE <<>>)
    \o (IF IsItem(obj) THEN CollectionLink(obj) ELSE <<>>)
    \o (IF IsLinkReader(obj) THEN StoredLinks(lks) ELSE <<>>)
    \o (IF IsPVReader(obj) \/ IsPVWriter(obj) THEN PVServiceLink ELSE <<>>)
    \o (IF IsHistoryReader(obj) \/ IsHistoryWriter(obj) THEN HistoryServiceLink ELSE <<>>)

\* Service.ReadProperties; item.GetCollection().GetTitle() panics with a nil
\* pointer dereference when the Collection of the item is nil
ReadPropertiesResult(path, items, lks) ==
    LET e == EvalPath(path)
    IN IF e.code # 0 THEN Errorf(e.code, e.msg)
       ELSE IF IsItem(e.obj) /\ GetCollection(e.obj) = Nil
            THEN [NoResult EXCEPT !.panic = TRUE]
       ELSE [NoResult EXCEPT !.attr = Attributes(e.obj),
                             !.links = LinkList(e.obj, items, lks),
                             !.ret = e.obj]

\* the paths of the requests: "/" and the paths of up to MaxSegs segments (a
\* plain one or the escaped SpecialId), a path with a malformed escape and a
\* path without leading slash
Segs == {PlainId, PathEscape(SpecialId)}

RECURSIVE PathsOfLen(_)
PathsOfLen(n) ==
    IF n = 0 THEN {<<>>}
    ELSE {p \o <<"/">> \o sg : p \in PathsOfLen(n - 1), sg \in Segs}

Paths == {<<"/">>, <<"/", "%">>, PlainId} \cup UNION {PathsOfLen(n) : n \in 1..MaxSegs}

\* ------------------------------------------ goroutines: initial state
Procs == 1..NumProcs

\* the identifiers of the members of the shared collection
ConcIds == {PlainId, SpecialId}

\* the item with identifier id constructed by goroutine p; 0 stands for
\* the code that built the tree before the goroutines started
NewObject(id, p) == (IF id = PlainId THEN 0 ELSE 1) * (NumProcs + 1) + p

\* the two locks: BasicCollection.mutex and BasicLinks.mutex
Locks == {"objects", "lobj"}

\* a sync.RWMutex nobody holds: the number of readers inside, the writer
\* that has called Lock (0 for none) and whether it is inside
FreeMutex == [readers |-> 0, w |-> 0, writing |-> FALSE]

\* the locals of a goroutine that has not called anything yet
NoLocals ==
    [op |-> "None", id |-> <<>>, callee |-> "None", lock |-> "None", held |-> "None",
     rem |-> {}, res |-> <<>>, found |-> Nil, ok |-> FALSE, snap |-> EmptyMap,
     obj |-> Nil, pobj |-> Nil, links |-> {}, created |-> FALSE, code |-> 0]

ConcAtRest ==
    /\ cobjects = [objects |-> EmptyMap, lobj |-> {}]
    /\ mutex = [l \in Locks |-> FreeMutex]
    /\ pc = [p \in Procs |-> "idle"]
    /\ loc = [p \in Procs |-> NoLocals]

\* --------------------------------------------- handler: initial state
\* no error: the nil of Go
NoError == [kind |-> "nil", code |-> 0, msg |-> <<>>]

\* no request yet: the handler with its configuration only
NoRequest ==
    [method |-> "", path |-> <<>>, query |-> [begin |-> <<>>, end |-> <<>>, limit |-> <<>>],
     len |-> 0, body |-> [kind |-> "none"],
     RequestSizeLimit |-> 0, HistorySizeLimit |-> 0, URLPrefix |-> <<>>]

\* the locals of ServeHTTP before it runs
NoHandlerLocals ==
    [fullPath |-> <<>>, respCode |-> 0, respBytes |-> <<>>, err |-> NoError,
     created |-> FALSE, props |-> [attr |-> "", links |-> <<>>]]

\* the http.ResponseWriter nothing was written to: the number of calls
\* of WriteHeader, the status sent, the Content-Type header, the number of
\* calls of Write, the body given to Write and whether Write returned
\* without error
NoResponse ==
    [headers |-> 0, status |-> 0, contentType |-> "", writes |-> 0, body |-> <<>>,
     delivered |-> TRUE]

\* HandlerStats of a new Handler; ResponseBytes is kept as the list of
\* the bodies whose lengths were added
NoStats ==
    [Requests |-> 0, RequestBytes |-> 0, ResponseBytes |-> <<>>, ErrorResponses |-> 0]

HandlerAtRest ==
    /\ hreq = NoRequest
    /\ hpc = "idle"
    /\ hloc = NoHandlerLocals
    /\ hresp = NoResponse
    /\ hcalls = <<>>
    /\ hstats = NoStats

\* ------------------------------------------------ the other components
\* no pure function applied
PureAtRest ==
    /\ fin = [fn |-> "None"]
    /\ fout = [fn |-> "None"]

\* HandlerStats of a Handler that serves concurrently, before any request
ZeroStats ==
    [Requests |-> 0, RequestBytes |-> 0, ResponseBytes |-> 0, ErrorResponses |-> 0]

\* what the peers have seen before any request
NothingServed == [requests |-> 0, errors |-> 0, ok |-> 0, bytes |-> 0, overlap |-> FALSE]

\* the locals of a ServeHTTP goroutine that is not running
NoServeLocals == [reqBytes |-> 0, msg |-> 0, respBytes |-> 0]

StatsAtRest ==
    /\ sstats = ZeroStats
    /\ spc = [p \in Procs |-> "idle"]
    /\ sloc = [p \in Procs |-> NoServeLocals]
    /\ served = NothingServed

\* no call of the Client
NoCall == [op |-> "None", ResponseSizeLimit |-> 0, encodable |-> TRUE]

\* no answer of the transport
NoAnswer == [err |-> FALSE, StatusCode |-> 0, len |-> 0, valid |-> FALSE]

\* nothing returned
NoReturn == [err |-> NoError, created |-> FALSE]

ClientAtRest ==
    /\ ccall = NoCall
    /\ cpc = "idle"
    /\ cresp = NoAnswer
    /\ cret = NoReturn

\* before DaemonFunc is called
DaemonAtRest ==
    /\ dpc = [main |-> "idle", daemon |-> "none"]
    /\ dctx = [done |-> "none"]
    /\ dterm = 0
    /\ dtimer = [state |-> "none", C |-> 0, d |-> 0, pre |-> "none"]
    /\ df = [sleeps |-> 0, d |-> 0, signal |-> FALSE]
    /\ dlog = <<>>

\* the goroutines a DaemonPool starts
Daemons == 1 .. MaxDaemons

\* no timer
NoTimer == [state |-> "none", C |-> 0]

\* a DaemonPool{} on which nothing was called: ctx is nil
PoolAtRest ==
    /\ ppc = [main |-> "idle", f |-> [g \in Daemons |-> "none"]]
    /\ pctx = "nil"
    /\ pwg = 0
    /\ pplan = [g \in Daemons |-> [sleep |-> FALSE, by |-> "none"]]
    /\ ptimer = [g \in Daemons |-> NoTimer]
    /\ pres = [g \in Daemons |-> "none"]

\* the callers of a DebouncedFunc
Callers == {"a", "b"}

\* a DebouncedFunc{} on which nothing was called: tmr is nil
DebounceAtRest ==
    /\ bpc = [c \in Callers |-> "idle"]
    /\ bmtx = "free"
    /\ btmr = [state |-> "nil", when |-> 0, C |-> "nil"]
    /\ bnow = 0
    /\ bcalls = [n |-> 0, trig |-> -1, armed |-> FALSE, canceled |-> FALSE,
                 funcs |-> 0, last |-> -1]

ExtAtRest ==
    /\ PureAtRest
    /\ StatsAtRest
    /\ ClientAtRest
    /\ DaemonAtRest
    /\ PoolAtRest
    /\ DebounceAtRest

\* ------------------------------------------------------------- actions
InitTree ==
    /\ kind = [o \in Pool |-> "None"]
    /\ ident = [o \in Pool |-> <<>>]
    /\ coll = [o \in Pool |-> Nil]
    /\ objects = [o \in Objs |-> EmptyMap]
    /\ putSeq = [o \in Objs |-> <<>>]
    /\ lobj = [o \in Pool |-> {}]
    /\ last = NoResult

Init ==
    /\ InitTree
    /\ ConcAtRest
    /\ HandlerAtRest
    /\ ExtAtRest

\* NewLinkedDomain, NewModifiableDomain, NewROVariable, ...: construct
\* object o with Collection c (nil or a collection) and put it into c when
\* c is not nil
NewItem(o, k, id, c) ==
    /\ Idle
    /\ ~Constructed(o)
    /\ c = Nil \/ (IsCollection(c) /\ c # o)
    /\ kind' = [kind EXCEPT ![o] = k]
    /\ ident' = [ident EXCEPT ![o] = id]
    /\ coll' = [coll EXCEPT ![o] = c]
    /\ IF c = Nil
       THEN UNCHANGED <<objects, putSeq>>
       ELSE /\ objects' = [objects EXCEPT ![c] = MapPut(objects[c], id, o)]
            /\ putSeq' = PutItemSeq(c, id)
    /\ last' = [NoResult EXCEPT !.op = "NewItem", !.recv = c, !.ret = o]
    /\ UNCHANGED <<lobj, concVars, httpVars, extVars>>

\* BasicCollection.PutItem: returns the replaced object or nil
PutItem(c, obj) ==
    /\ Idle
    /\ IsCollection(c)
    /\ IsItem(obj)
    /\ objects' = PutItemObjects(c, obj)
    /\ putSeq' = PutItemSeq(c, GetIdentifier(obj))
    /\ last' = [NoResult EXCEPT !.op = "PutItem", !.recv = c, !.path = GetIdentifier(obj),
                                !.val = <<obj>>,
                                !.ret = MapGet(objects[c], GetIdentifier(obj))]
    /\ UNCHANGED <<kind, ident, coll, lobj, concVars, httpVars, extVars>>

\* BasicCollection.RemoveItem: returns the removed object or nil
RemoveItem(c, id) ==
    /\ Idle
    /\ IsCollection(c)
    /\ objects' = [objects EXCEPT ![c] = MapDelete(objects[c], id)]
    /\ putSeq' = [putSeq EXCEPT ![c] = SeqWithout(putSeq[c], id)]
    /\ last' = [NoResult EXCEPT !.op = "RemoveItem", !.recv = c, !.path = id,
                                !.ret = MapGet(objects[c], id)]
    /\ UNCHANGED <<kind, ident, coll, lobj, concVars, httpVars, extVars>>

\* a PutLink that always reports the link as added (fault variant)
PutLink_AlwaysTrue(l, target, role) ==
    /\ Idle
    /\ IsLinkReader(l)
    /\ Constructed(target)
    /\ lobj' = [lobj EXCEPT ![l] = lobj[l] \cup {<<target, role>>}]
    /\ last' = [NoResult EXCEPT !.op = "PutLink", !.recv = l, !.ret = target, !.val = <<role>>,
                                !.ok = TRUE]
    /\ UNCHANGED <<kind, ident, coll, objects, putSeq, concVars, httpVars, extVars>>

\* BasicLinks.PutLink: true iff the link was added
PutLink(l, target, role) ==
    /\ Idle
    /\ IsLinkReader(l)
    /\ Constructed(target)
    /\ lobj' = [lobj EXCEPT ![l] = lobj[l] \cup {<<target, role>>}]
    /\ last' = [NoResult EXCEPT !.op = "PutLink", !.recv = l, !.ret = target, !.val = <<role>>,
                                !.ok = (<<target, role>> \notin lobj[l])]
    /\ UNCHANGED <<kind, ident, coll, objects, putSeq, concVars, httpVars, extVars>>

\* BasicLinks.RemoveLink: true iff the link was removed
RemoveLink(l, target, role) ==
    /\ Idle
    /\ IsLinkReader(l)
    /\ Constructed(target)
    /\ lobj' = [lobj EXCEPT ![l] = lobj[l] \ {<<target, role>>}]
    /\ last' = [NoResult EXCEPT !.op = "RemoveLink", !.recv = l, !.ret = target, !.val = <<role>>,
                                !.ok = (<<target, role>> \in lobj[l])]
    /\ UNCHANGED <<kind, ident, coll, objects, putSeq, concVars, httpVars, extVars>>

TreeUnchanged == UNCHANGED <<kind, ident, coll, objects, putSeq, lobj, concVars, httpVars, extVars>>

ReadPV(path, out) ==
    /\ Idle
    /\ last' = [ReadPVResult(path, out) EXCEPT !.op = "ReadPV", !.path = path]
    /\ TreeUnchanged

WritePV(path, out) ==
    /\ Idle
    /\ last' = [WritePVResult(path, out) EXCEPT !.op = "WritePV", !.path = path]
    /\ TreeUnchanged

ReadHistory(path, out) ==
    /\ Idle
    /\ last' = [ReadHistoryResult(path, out) EXCEPT !.op = "ReadHistory", !.path = path]
    /\ TreeUnchanged

WriteHistory(path, out) ==
    /\ Idle
    /\ last' = [WriteHistoryResult(path, out) EXCEPT !.op = "WriteHistory", !.path = path]
    /\ TreeUnchanged

\* Service.ReadProperties: Items and ReadLinks return in some order
ReadProperties(path) ==
    /\ Idle
    /\ LET e == EvalPath(path)
       IN \E items \in (IF e.code = 0 /\ IsCollection(e.obj) THEN Items(e.obj) ELSE {<<>>}) :
          \E lks \in (IF e.code = 0 /\ IsLinkReader(e.obj) THEN ReadLinks(e.obj) ELSE {<<>>}) :
             last' = [ReadPropertiesResult(path, items, lks) EXCEPT
                         !.op = "ReadProperties", !.path = path]
    /\ TreeUnchanged

\* what the CreateFunc of a ModifiableDomain does: construct a Domain with
\* the identifier and the collection given (as the CreateFunc of
\* TestModifiableDomain), return nil without creating, or return an error
CreateFuncs == {"NewDomain", "nothing", "error"}

\* the object a CreateFunc constructs: the first one not yet constructed
FreeObj == CHOOSE o \in Pool : ~Constructed(o) /\ \A u \in Pool : ~Constructed(u) => o <= u

\* a write of properties that drops the stored links (fault variant)
LinksAfterWrite_Dropped(l) == [o \in DOMAIN l |-> {}]

\* WriteProperties, setAttr and CreateItem do not handle links: the stored
\* links stay
LinksAfterWrite(l) == l

\* ModifiableDomain.CreateItem -> CreateFunc(d, id, attr)
CreateItem(d, id, f) ==
    /\ f = "NewDomain" => \E o \in Pool : ~Constructed(o)
    /\ IF f = "NewDomain"
       THEN /\ kind' = [kind EXCEPT ![FreeObj] = "Domain"]
            /\ ident' = [ident EXCEPT ![FreeObj] = id]
            /\ coll' = [coll EXCEPT ![FreeObj] = d]
            /\ objects' = [objects EXCEPT ![d] = MapPut(objects[d], id, FreeObj)]
            /\ putSeq' = PutItemSeq(d, id)
       ELSE UNCHANGED <<kind, ident, coll, objects, putSeq>>
    /\ lobj' = LinksAfterWrite(lobj)
    /\ UNCHANGED <<concVars, httpVars, extVars>>

\* what CreateFunc f returns
CreateFuncOutcome(f) ==
    IF f = "error"
    THEN [val |-> <<f>>, code |-> StatusForbidden, msg |-> <<"create failed">>]
    ELSE [val |-> <<f>>, code |-> 0, msg |-> <<>>]

\* what WriteProperties returns after CreateItem
CreateItemResult(d, id, f) ==
    [NoResult EXCEPT !.code = CreateFuncOutcome(f).code, !.msg = CreateFuncOutcome(f).msg,
                     !.calls = <<Call(d, "CreateItem", id, CreateFuncOutcome(f))>>,
                     !.created = (CreateFuncOutcome(f).code = 0)]


\* Service.WriteProperties
WriteProperties(objPath, out, f) ==
    /\ Idle
    /\ LET e == EvalPath(Dir(objPath))
           childIdent == Base(objPath)
           g == GetItem(e.obj, childIdent)
           done(r) ==
                /\ last' = [r EXCEPT !.op = "WriteProperties", !.path = objPath]
                /\ lobj' = LinksAfterWrite(lobj)
                /\ UNCHANGED <<kind, ident, coll, objects, putSeq, concVars, httpVars, extVars>>
       IN IF objPath = <<"/">> THEN done(setAttr(objPath, RootObj, out))
          ELSE IF e.code # 0 THEN done(Errorf(e.code, e.msg))
          ELSE IF g.code = 0 THEN done(setAttr(objPath, g.obj, out))
          ELSE IF ~IsCollectionModifier(e.obj)
          THEN done(Errorf(StatusMethodNotAllowed, <<"Create not supported: ">> \o objPath))
          ELSE /\ CreateItem(e.obj, childIdent, f)
               /\ last' = [CreateItemResult(e.obj, childIdent, f) EXCEPT
                              !.op = "WriteProperties", !.path = objPath]

\* ModifiableDomain.DeleteItem: what it returns
DeleteItemOutcome(d, id) ==
    IF MapGet(objects[d], id) = Nil
    THEN [val |-> <<>>, code |-> StatusNotFound, msg |-> <<"Item not found: ">> \o id]
    ELSE [val |-> <<>>, code |-> 0, msg |-> <<>>]

\* what Delete returns after DeleteItem
DeleteItemResult(d, id) ==
    [NoResult EXCEPT !.code = DeleteItemOutcome(d, id).code, !.msg = DeleteItemOutcome(d, id).msg,
                     !.calls = <<Call(d, "DeleteItem", id, DeleteItemOutcome(d, id))>>]

\* Service.Delete
Delete(itemPath) ==
    /\ Idle
    /\ LET e == EvalPath(Dir(itemPath))
           done(r) == /\ last' = [r EXCEPT !.op = "Delete", !.path = itemPath]
                      /\ TreeUnchanged
       IN IF itemPath = <<"/">>
          THEN done(Errorf(StatusMethodNotAllowed, <<"Root can not be deleted">>))
          ELSE IF e.code # 0 THEN done(Errorf(e.code, e.msg))
          ELSE IF ~IsCollectionModifier(e.obj)
          THEN done(Errorf(StatusMethodNotAllowed, <<"Delete not supported: ">> \o itemPath))
          ELSE /\ objects' = [objects EXCEPT ![e.obj] = MapDelete(objects[e.obj], Base(itemPath))]
               /\ putSeq' = [putSeq EXCEPT ![e.obj] = SeqWithout(putSeq[e.obj], Base(itemPath))]
               /\ last' = [DeleteItemResult(e.obj, Base(itemPath)) EXCEPT
                              !.op = "Delete", !.path = itemPath]
               /\ UNCHANGED <<kind, ident, coll, lobj, concVars, httpVars, extVars>>

\* the caller takes the result of the last call
TakeResult ==
    /\ ~Idle
    /\ last' = NoResult
    /\ TreeUnchanged

\* the arguments of the calls of the model
LinkRoles == {"rel1", "rel2"}
LinkTargets == {2}
Identifiers == {PlainId, SpecialId, EmptyId}

Next ==
    \/ \E o \in Pool : \E k \in KindChoices(o) : \E id \in IdChoices(o) :
         \E c \in CollectionChoices(o) : NewItem(o, k, id, c)
    \/ \E obj \in Pool : PutItem(RootObj, obj)
    \/ \E c \in Objs : \E id \in Identifiers : RemoveItem(c, id)
    \/ \E l \in Pool : \E t \in LinkTargets : \E r \in LinkRoles : PutLink(l, t, r)
    \/ \E l \in Pool : \E t \in LinkTargets : \E r \in LinkRoles : RemoveLink(l, t, r)
    \/ \E p \in Paths : \E out \in CapOutcomes : ReadPV(p, out)
    \/ \E p \in Paths : \E out \in CapOutcomes : WritePV(p, out)
    \/ \E p \in Paths : \E out \in CapOutcomes : ReadHistory(p, out)
    \/ \E p \in Paths : \E out \in CapOutcomes : WriteHistory(p, out)
    \/ \E p \in Paths : ReadProperties(p)
    \/ \E p \in Paths : \E out \in CapOutcomes : \E f \in CreateFuncs : WriteProperties(p, out, f)
    \/ \E p \in Paths : Delete(p)
    \/ TakeResult

Spec == Init /\ [][Next]_vars

\* ------------------------------------------------- properties: resolver
\* the segments between the slashes of s
RECURSIVE SplitSlash(_)
SplitSlash(s) ==
    IF ~Contains(s, "/") THEN <<s>>
    ELSE <<SubSeq(s, 1, IndexRune(s, "/") - 1)>>
         \o SplitSlash(SubSeq(s, IndexRune(s, "/") + 1, Len(s)))

\* the segments of a request path that starts with a slash; "/" has none
SegmentsOf(p) == IF Len(p) <= 1 THEN <<>> ELSE SplitSlash(Tail(p))

\* a segment is well-formed when it percent-decodes
Decodable(seg) == PathUnescape(seg).ok
Decoded(seg) == PathUnescape(seg).s

\* the object reached from the root after the first k segments, Nil when the
\* descent has failed before
RECURSIVE Reached(_, _)
Reached(segs, k) ==
    IF k = 0 THEN RootObj
    ELSE LET c == Reached(segs, k - 1)
         IN IF c = Nil \/ ~IsCollection(c) THEN Nil
            ELSE MapGet(objects[c], Decoded(segs[k]))

\* the operations that resolve their path argument with EvalPath
EvalOps == {"ReadPV", "WritePV", "ReadHistory", "WriteHistory", "ReadProperties"}

\* C1: an operation that resolves its path with EvalPath fails with 404 at
\* the first segment at which the object reached so far is not a collection
\* or has no child with the decoded identifier; when no child matches, the
\* message is "Item not found at <absolute path of the container>: <decoded
\* identifier>"; no capability of any object is invoked
C1_NotFoundAtFirstMissingSegment ==
    (last.op \in EvalOps /\ Len(last.path) >= 1 /\ last.path[1] = "/") =>
        LET segs == SegmentsOf(last.path)
        IN \A k \in 1..Len(segs) :
              ( /\ \A j \in 1..k : Decodable(segs[j])
                /\ Reached(segs, k - 1) # Nil
                /\ Reached(segs, k) = Nil )
              => /\ last.code = StatusNotFound
                 /\ last.calls = <<>>
                 /\ ~last.panic
                 /\ last.val = <<>> /\ last.links = <<>>
                 /\ IsCollection(Reached(segs, k - 1)) =>
                       last.msg = <<"Item not found at ">> \o AbsPath(Reached(segs, k - 1))
                                  \o <<": ">> \o Decoded(segs[k])

\* C1 happens: ReadPV of the missing child "a" of the domain with the
\* identifier " /%"
C1_Witness ==
    /\ last.op = "ReadPV"
    /\ last.code = StatusNotFound
    /\ last.calls = <<>>
    /\ last.msg = <<"Item not found at ", "/", "%", "2", "0", "%", "2", "F", "%", "2", "5",
                    ": ", "a">>

\* ------------------------------------------------- properties: dispatch
\* the capability an operation needs and the message when it is missing
HasCapability(op, o) ==
    CASE op = "ReadPV" -> IsPVReader(o)
      [] op = "WritePV" -> IsPVWriter(o)
      [] op = "ReadHistory" -> IsHistoryReader(o)
      [] op = "WriteHistory" -> IsHistoryWriter(o)

NotSupported(op) ==
    CASE op = "ReadPV" -> "Reading PV not supported: "
      [] op = "WritePV" -> "Writing PV not supported: "
      [] op = "ReadHistory" -> "Reading History not supported: "
      [] op = "WriteHistory" -> "Writing History not supported: "

PVOps == {"ReadPV", "WritePV", "ReadHistory", "WriteHistory"}

\* the object a well-formed path resolves to, Nil when it does not resolve
Resolved(p) ==
    IF Len(p) >= 1 /\ p[1] = "/" /\ \A j \in 1..Len(SegmentsOf(p)) : Decodable(SegmentsOf(p)[j])
    THEN Reached(SegmentsOf(p), Len(SegmentsOf(p)))
    ELSE Nil

\* C2: ReadPV, WritePV, ReadHistory and WriteHistory on a path that resolves:
\* without the matching capability the call fails with 405 and a message
\* naming the request path and nothing is invoked; with it the capability of
\* the resolved object is invoked exactly once and what it returned (value
\* and error) is returned unchanged
C2_Dispatch ==
    (last.op \in PVOps /\ Resolved(last.path) # Nil) =>
        IF HasCapability(last.op, Resolved(last.path))
        THEN /\ Len(last.calls) = 1
             /\ last.calls[1].obj = Resolved(last.path)
             /\ last.calls[1].cap = last.op
             /\ last.code = last.calls[1].out.code
             /\ last.msg = last.calls[1].out.msg
             /\ last.op \in {"ReadPV", "ReadHistory"} => last.val = last.calls[1].out.val
        ELSE /\ last.code = StatusMethodNotAllowed
             /\ last.msg = <<NotSupported(last.op)>> \o last.path
             /\ last.calls = <<>>

\* C2 happens: WritePV on "/a", a read-only variable
C2_Witness ==
    /\ last.op = "WritePV"
    /\ last.path = <<"/", "a">>
    /\ IsPVReader(Resolved(last.path))
    /\ last.code = StatusMethodNotAllowed
    /\ last.msg = <<"Writing PV not supported: ", "/", "a">>

\* --------------------------------------------------- properties: links
\* the current members of collection c
Members(c) == {objects[c][id] : id \in DOMAIN objects[c]}

\* the link a response holds for member m of collection c, for the
\* collection of an item whose collection has the title t, and for a stored
\* link lk = <<target, role>>
ChildLink(c, m) ==
    [Role |-> "item", Target |-> PathEscape(GetIdentifier(m)), Title |-> GetTitle(m)]
ParentLink(t) == [Role |-> "collection", Target |-> <<".", ".">>, Title |-> t]
StoredLink(lk) == [Role |-> lk[2], Target |-> AbsPath(lk[1]), Title |-> GetTitle(lk[1])]

\* a ReadProperties call that returned properties
PropertiesRead == last.op = "ReadProperties" /\ last.code = 0 /\ ~last.panic

\* C3: the link list of ReadProperties is: one link per child (item role,
\* escaped identifier, title of the child) for a collection, then the link
\* to its collection (collection role, "..", title of the collection) for an
\* item, then one link per stored link (role, absolute escaped path and
\* title of the target) for a link reader, then the "~pv" service link for a
\* PV reader or writer, then the "~hist" service link for a history reader
\* or writer, and nothing else
C3_LinkOrder ==
    PropertiesRead =>
        LET o == Resolved(last.path)
            L == last.links
            n1 == IF IsCollection(o) THEN Cardinality(Members(o)) ELSE 0
            n2 == IF IsItem(o) THEN 1 ELSE 0
            n3 == IF IsLinkReader(o) THEN Cardinality(lobj[o]) ELSE 0
            n4 == IF IsPVReader(o) \/ IsPVWriter(o) THEN 1 ELSE 0
            n5 == IF IsHistoryReader(o) \/ IsHistoryWriter(o) THEN 1 ELSE 0
        IN /\ Len(L) = n1 + n2 + n3 + n4 + n5
           /\ \A i \in 1..n1 : \E m \in Members(o) : L[i] = ChildLink(o, m)
           /\ n1 > 0 => \A m \in Members(o) : \E i \in 1..n1 : L[i] = ChildLink(o, m)
           /\ n2 = 1 => L[n1 + 1] = ParentLink(GetTitle(GetCollection(o)))
           /\ \A i \in 1..n3 : \E lk \in lobj[o] : L[n1 + n2 + i] = StoredLink(lk)
           /\ n3 > 0 => \A lk \in lobj[o] : \E i \in 1..n3 : L[n1 + n2 + i] = StoredLink(lk)
           /\ n4 = 1 => L[n1 + n2 + n3 + 1] =
                           [Role |-> "service", Target |-> <<"~", "p", "v">>,
                            Title |-> <<"PV Service">>]
           /\ n5 = 1 => L[n1 + n2 + n3 + n4 + 1] =
                           [Role |-> "service", Target |-> <<"~", "h", "i", "s", "t">>,
                            Title |-> <<"History Service">>]

\* C3 happens: the properties of a linked domain with a child, a collection
\* and two stored links
C3_Witness ==
    /\ PropertiesRead
    /\ IsLinkReader(last.ret)
    /\ Len(last.links) = 4
    /\ last.links[1].Role = "item"
    /\ last.links[2].Target = <<".", ".">>
    /\ {last.links[3].Role, last.links[4].Role} = {"rel1", "rel2"}

\* after ReadProperties of a collection, the links with the item role are
\* one per current member
C4_ChildLinks ==
    (PropertiesRead /\ IsCollection(Resolved(last.path))) =>
        LET o == Resolved(last.path)
            idx == {i \in 1..Len(last.links) : last.links[i].Role = "item"}
        IN /\ Cardinality(idx) = Cardinality(Members(o))
           /\ \A m \in Members(o) : \E i \in idx : last.links[i] = ChildLink(o, m)

\* the collection through which a path of at least one segment reaches its
\* object
Container(p) == Reached(SegmentsOf(p), Len(SegmentsOf(p)) - 1)

\* the parent link of the object at last.path has the title of the
\* collection that holds the object
ParentLinkOfContainer ==
    /\ last.code = 0
    /\ ~last.panic
    /\ \E i \in 1..Len(last.links) :
          last.links[i] = ParentLink(GetTitle(Container(last.path)))

\* a ReadProperties call on the path of a member of a collection
MemberRead ==
    /\ last.op = "ReadProperties"
    /\ Resolved(last.path) # Nil
    /\ Resolved(last.path) # RootObj

\* what PutItem, RemoveItem, CreateItem (of a CreateFunc that puts the item
\* it constructs into the collection) and DeleteItem do with the members of
\* their collection
C4_Step ==
    /\ last'.op = "PutItem" =>
          DOMAIN objects'[last'.recv] = DOMAIN objects[last'.recv] \cup {last'.path}
    /\ last'.op = "RemoveItem" =>
          DOMAIN objects'[last'.recv] = DOMAIN objects[last'.recv] \ {last'.path}
    /\ (last'.op = "WriteProperties" /\ last'.created
           /\ last'.calls[1].out.val = <<"NewDomain">>) =>
          DOMAIN objects'[last'.calls[1].obj] =
              DOMAIN objects[last'.calls[1].obj] \cup {last'.calls[1].arg}
    /\ (last'.op = "Delete" /\ last'.calls # <<>>) =>
          DOMAIN objects'[last'.calls[1].obj] =
              DOMAIN objects[last'.calls[1].obj] \ {last'.calls[1].arg}

WellFormed(p) ==
    /\ Len(p) >= 1
    /\ p[1] = "/"
    /\ \A j \in 1..Len(SegmentsOf(p)) : Decodable(SegmentsOf(p)[j])

\* the identifier the last segment of a path of at least one segment names
TargetIdentifier(p) == Decoded(SegmentsOf(p)[Len(SegmentsOf(p))])

\* a step is a call of WriteProperties on a path other than "/" whose
\* parent resolves and has no child with the target identifier
CreateCase ==
    /\ last'.op = "WriteProperties"
    /\ last'.path # <<"/">>
    /\ WellFormed(last'.path)
    /\ Container(last'.path) # Nil
    /\ Resolved(last'.path) = Nil

\* C5: WriteProperties on a path other than "/" whose parent resolves and
\* has no child with the target identifier: a parent with CollectionModifier
\* gets exactly one CreateItem call with that identifier, created = true is
\* returned when it succeeds, and when the CreateFunc puts the new item into
\* the collection the path resolves afterwards and the parent has the new
\* member; a parent without CollectionModifier gives 405 "Create not
\* supported: <path>", created = false and unchanged members
C5_CreateOnMissingChild ==
    [][ CreateCase =>
          IF IsCollectionModifier(Container(last'.path))
          THEN /\ Len(last'.calls) = 1
               /\ last'.calls[1].obj = Container(last'.path)
               /\ last'.calls[1].cap = "CreateItem"
               /\ last'.calls[1].arg = TargetIdentifier(last'.path)
               /\ last'.calls[1].out.code = 0 => (last'.created /\ last'.code = 0)
               /\ (last'.calls[1].out.code = 0 /\ last'.calls[1].out.val = <<"NewDomain">>) =>
                     /\ Resolved(last.path)' # Nil
                     /\ TargetIdentifier(last'.path) \in DOMAIN objects'[Container(last'.path)]
          ELSE /\ last'.code = StatusMethodNotAllowed
               /\ last'.msg = <<"Create not supported: ">> \o last'.path
               /\ ~last'.created
               /\ last'.calls = <<>>
               /\ objects' = objects ]_vars

\* C6: WriteProperties on "/" or on a path whose last segment names an
\* existing child of the resolved parent creates nothing: created = false,
\* no CreateItem call, unchanged members; the target's WriteAttributes is
\* invoked exactly once and its error returned when the target is an
\* AttributeWriter, else the call fails with 405 naming the path
C6_UpdateExistingNeverCreates ==
    [][ (last'.op = "WriteProperties" /\ WellFormed(last'.path)
           /\ Resolved(last'.path) # Nil) =>
          /\ ~last'.created
          /\ objects' = objects
          /\ \A i \in 1..Len(last'.calls) : last'.calls[i].cap # "CreateItem"
          /\ IF IsAttributeWriter(Resolved(last'.path))
             THEN /\ Len(last'.calls) = 1
                  /\ last'.calls[1].obj = Resolved(last'.path)
                  /\ last'.calls[1].cap = "WriteAttributes"
                  /\ last'.code = last'.calls[1].out.code
                  /\ last'.msg = last'.calls[1].out.msg
             ELSE /\ last'.code = StatusMethodNotAllowed
                  /\ last'.msg = <<"Writing of attributes not supported: ">> \o last'.path
                  /\ last'.calls = <<>> ]_vars

\* the members of every collection after the child id of collection c is
\* removed
WithoutChild(c, id) ==
    [objects EXCEPT ![c] = [k \in DOMAIN objects[c] \ {id} |-> objects[c][k]]]

\* C7: Delete("/") fails with 405 and removes nothing; Delete on another
\* path whose parent resolves fails with 405 "Delete not supported: <path>"
\* when the parent has no CollectionModifier and else calls the parent's
\* DeleteItem with the target identifier; a successful Delete removes
\* exactly that child and the path no longer resolves; Delete of an absent
\* child fails with 404 and leaves the members unchanged
C7_Delete ==
    [][ last'.op = "Delete" =>
          /\ last'.path = <<"/">> =>
                (last'.code = StatusMethodNotAllowed /\ objects' = objects)
          /\ (last'.path # <<"/">> /\ WellFormed(last'.path) /\ Container(last'.path) # Nil) =>
                IF ~IsCollectionModifier(Container(last'.path))
                THEN /\ last'.code = StatusMethodNotAllowed
                     /\ last'.msg = <<"Delete not supported: ">> \o last'.path
                     /\ last'.calls = <<>>
                     /\ objects' = objects
                ELSE /\ Len(last'.calls) = 1
                     /\ last'.calls[1].obj = Container(last'.path)
                     /\ last'.calls[1].cap = "DeleteItem"
                     /\ last'.calls[1].arg = TargetIdentifier(last'.path)
                     /\ last'.code = 0 =>
                           /\ objects' = WithoutChild(Container(last'.path),
                                                      TargetIdentifier(last'.path))
                           /\ Resolved(last.path)' = Nil
                     /\ Resolved(last'.path) = Nil =>
                           (last'.code = StatusNotFound /\ objects' = objects) ]_vars

\* ------------------------------------------------------------------ C36
\* a step is a call of op on a path other than "/" that EvalPath resolves
\* to a child
AddressesChild(op) ==
    /\ last'.op = op
    /\ last'.path # <<"/">>
    /\ WellFormed(last'.path)
    /\ Resolved(last'.path) # Nil

\* C36: WriteProperties and Delete address the child that EvalPath
\* resolves the path to: the identifier they look up and hand to
\* CreateItem or DeleteItem is the percent-decoded last segment, which is
\* the identifier of that child; so WriteProperties on the path of an
\* existing child creates nothing, and Delete on it below a
\* CollectionModifier calls DeleteItem for that child.
C36_LastSegmentDecoded ==
    [][ /\ AddressesChild("WriteProperties") =>
              /\ ~last'.created
              /\ \A i \in 1..Len(last'.calls) : last'.calls[i].cap # "CreateItem"
        /\ (AddressesChild("Delete") /\ IsCollectionModifier(Container(last'.path))) =>
              /\ Len(last'.calls) = 1
              /\ last'.calls[1].cap = "DeleteItem"
              /\ last'.calls[1].arg = GetIdentifier(Resolved(last'.path))
              /\ last'.code # StatusNotFound ]_vars

\* ------------------------------------------------------------------ C38
\* the stored links ReadProperties has listed: those of the link reader
\* the path resolves to
ListedStoredLinks ==
    IF PropertiesRead /\ Resolved(last.path) # Nil /\ IsLinkReader(Resolved(last.path))
    THEN lobj[Resolved(last.path)] ELSE {}

\* C38: every stored link that ReadProperties lists has as Target a path
\* that EvalPath resolves to the target object of the link.
C38_LinksResolve ==
    \A l \in ListedStoredLinks :
        /\ \E i \in 1..Len(last.links) :
              last.links[i].Role = l[2] /\ last.links[i].Target = AbsPath(l[1])
        /\ EvalPath(AbsPath(l[1])).code = 0
        /\ EvalPath(AbsPath(l[1])).obj = l[1]

\* ------------------------------------------- properties: escape round trip
\* o is reachable from the root through collections whose items reference
\* their containing collection
RECURSIVE ProperlyReachable(_)
ProperlyReachable(o) ==
    \/ o = RootObj
    \/ /\ IsItem(o)
       /\ GetCollection(o) # Nil
       /\ IsCollection(GetCollection(o))
       /\ MapGet(objects[GetCollection(o)], GetIdentifier(o)) = o
       /\ ProperlyReachable(GetCollection(o))

\* the path built from the escaped identifiers on the way from the root to o
RECURSIVE EscapedSegments(_)
EscapedSegments(o) ==
    IF o = RootObj THEN <<>>
    ELSE EscapedSegments(GetCollection(o)) \o <<"/">> \o PathEscape(GetIdentifier(o))

BuiltPath(o) == IF o = RootObj THEN <<"/">> ELSE EscapedSegments(o)

\* no identifier on the way from the root to o is empty
RECURSIVE NonEmptyIdentifiers(_)
NonEmptyIdentifiers(o) ==
    o = RootObj \/ (GetIdentifier(o) # <<>> /\ NonEmptyIdentifiers(GetCollection(o)))

\* EvalPath of the built path returns o and AbsPath(o) is the built path;
\* the identifier " /%" directly below the root gives "/%20%2F%25"
RoundTrip(o) ==
    /\ EvalPath(BuiltPath(o)) = [obj |-> o, code |-> 0, msg |-> <<>>]
    /\ AbsPath(o) = BuiltPath(o)
    /\ (o # RootObj /\ GetCollection(o) = RootObj /\ GetIdentifier(o) = <<" ", "/", "%">>) =>
          AbsPath(o) = <<"/", "%", "2", "0", "%", "2", "F", "%", "2", "5">>

\* C8 as stated: for every object reachable from the root through
\* collections whose items reference their collection, whatever the
\* identifiers, EvalPath of the path built from the escaped identifiers
\* returns the object and AbsPath reproduces that path; AbsPath(root) = "/"
C8_Original ==
    /\ AbsPath(RootObj) = <<"/">>
    /\ \A o \in Objs : (Constructed(o) /\ ProperlyReachable(o)) => RoundTrip(o)

\* C8, amended: the same for the objects on whose way from the root no
\* identifier is empty (a path that ends with an empty segment resolves to
\* the collection, not to its member with the empty identifier)
C8_RoundTrip ==
    /\ AbsPath(RootObj) = <<"/">>
    /\ \A o \in Objs :
          (Constructed(o) /\ ProperlyReachable(o) /\ NonEmptyIdentifiers(o)) => RoundTrip(o)

\* C8 happens: the item " /%" of the domain " /%" was resolved by its
\* escaped path, and AbsPath gives that path back
C8_Witness ==
    /\ PropertiesRead
    /\ last.path = <<"/", "%", "2", "0", "%", "2", "F", "%", "2", "5",
                     "/", "%", "2", "0", "%", "2", "F", "%", "2", "5">>
    /\ last.ret \in Pool
    /\ GetIdentifier(last.ret) = <<" ", "/", "%">>
    /\ ProperlyReachable(last.ret)
    /\ AbsPath(last.ret) = last.path

\* ------------------------------------------------ properties: Items order
\* the members of c in the order of the PutItem calls that added them
InsertionOrder(c) == [i \in 1..Len(putSeq[c]) |-> objects[c][putSeq[c][i]]]

\* the links at the front of the response, one per element of items
ChildLinksAre(c, items) ==
    /\ Len(last.links) >= Len(items)
    /\ \A i \in 1..Len(items) : last.links[i] = ChildLink(c, items[i])

\* C9 as stated: Items returns the members in insertion order and the child
\* links of a ReadProperties response are in insertion order
C9_Original ==
    /\ \A c \in Objs : IsCollection(c) => Items(c) = {InsertionOrder(c)}
    /\ (PropertiesRead /\ IsCollection(Resolved(last.path))) =>
          ChildLinksAre(Resolved(last.path), InsertionOrder(Resolved(last.path)))

\* C9, amended: Items returns every current member exactly once, in an
\* order that is not specified (the order of one iteration over a Go map),
\* and the child links of a ReadProperties response are in the order of
\* one such enumeration
C9_ItemsEachMemberOnce ==
    /\ \A c \in Objs : IsCollection(c) =>
          \A items \in Items(c) :
             /\ Len(items) = Cardinality(Members(c))
             /\ {items[i] : i \in 1..Len(items)} = Members(c)
    /\ (PropertiesRead /\ IsCollection(Resolved(last.path))) =>
          \E e \in Enumerations(Members(Resolved(last.path))) :
             ChildLinksAre(Resolved(last.path), e)

\* C9 happens: a response lists two children, the one put last first
C9_Witness ==
    /\ PropertiesRead
    /\ IsCollection(Resolved(last.path))
    /\ Len(putSeq[Resolved(last.path)]) = 2
    /\ ChildLinksAre(Resolved(last.path),
                     <<InsertionOrder(Resolved(last.path))[2],
                       InsertionOrder(Resolved(last.path))[1]>>)

\* ---------------------------------------------- properties: stored links
\* what PutLink and RemoveLink return and do to the link set
C10_Step ==
    /\ last'.op = "PutLink" =>
          /\ last'.ok = (<<last'.ret, last'.val[1]>> \notin lobj[last'.recv])
          /\ lobj'[last'.recv] = lobj[last'.recv] \cup {<<last'.ret, last'.val[1]>>}
          /\ ~last'.ok => lobj' = lobj
    /\ last'.op = "RemoveLink" =>
          /\ last'.ok = (<<last'.ret, last'.val[1]>> \in lobj[last'.recv])
          /\ lobj'[last'.recv] = lobj[last'.recv] \ {<<last'.ret, last'.val[1]>>}
          /\ ~last'.ok => lobj' = lobj

\* the stored links a response lists are the links of the set, each once
C10_Listed ==
    (PropertiesRead /\ IsLinkReader(Resolved(last.path))) =>
        LET o == Resolved(last.path)
            idx == {i \in 1..Len(last.links) : last.links[i].Role \in LinkRoles}
        IN /\ Cardinality(idx) = Cardinality(lobj[o])
           /\ \A lk \in lobj[o] : \E i \in idx : last.links[i] = StoredLink(lk)
           /\ \A i \in idx : \A j \in idx : last.links[i] = last.links[j] => i = j

\* C10: PutLink returns true exactly when the link set has no link with the
\* same target and role, and leaves the set unchanged when it returns false;
\* RemoveLink returns true exactly when the set has such a link; the set
\* holds no link twice; ReadProperties lists exactly the links of the set,
\* so a removed link is not listed and a link to the same target with
\* another role still is
C10_LinkSet ==
    /\ [][C10_Step]_vars
    /\ []C10_Listed

\* C10 happens: the link with role "rel1" was removed and the link to the
\* same target with role "rel2" is still in the set
C10_Witness ==
    /\ last.op = "RemoveLink"
    /\ last.ok
    /\ last.val = <<"rel1">>
    /\ lobj[last.recv] = {<<last.ret, "rel2">>}

\* -------------------------------------------- properties: PutItem, RemoveItem
\* every member is held under its own identifier, so no two members of a
\* collection have the same identifier
MembersByIdentifier ==
    \A c \in Objs : \A id \in DOMAIN objects[c] :
        /\ objects[c][id] # Nil
        /\ GetIdentifier(objects[c][id]) = id

\* the members of the collections other than c, and the members of c other
\* than the one with identifier id, are the same before and after the step
OthersUntouched(c, id) ==
    /\ \A d \in Objs \ {c} : objects'[d] = objects[d]
    /\ \A k \in (DOMAIN objects[c] \cup DOMAIN objects'[c]) \ {id} :
          MapGet(objects'[c], k) = MapGet(objects[c], k)

\* what PutItem and RemoveItem return and do to the members
C11_Step ==
    /\ last'.op = "PutItem" =>
          /\ last'.ret = MapGet(objects[last'.recv], GetIdentifier(last'.val[1]))
          /\ MapGet(objects'[last'.recv], GetIdentifier(last'.val[1])) = last'.val[1]
          /\ OthersUntouched(last'.recv, GetIdentifier(last'.val[1]))
    /\ last'.op = "RemoveItem" =>
          /\ last'.ret = MapGet(objects[last'.recv], last'.path)
          /\ MapGet(objects'[last'.recv], last'.path) = Nil
          /\ OthersUntouched(last'.recv, last'.path)

\* C11: a collection never holds two members with the same identifier;
\* PutItem(obj) replaces the member with obj's identifier and returns it (nil
\* if there was none), and Item(id) then returns obj; RemoveItem(id) returns
\* the removed member (nil if there was none), and Item(id) then reports not
\* found; neither call affects another member
C11_PutRemove ==
    /\ [][C11_Step]_vars
    /\ []MembersByIdentifier

\* C11 happens: PutItem has replaced a member by another object with the
\* same identifier and returned the replaced one
C11_Witness ==
    /\ last.op = "PutItem"
    /\ last.ret \in Pool
    /\ last.ret # last.val[1]
    /\ GetIdentifier(last.ret) = GetIdentifier(last.val[1])
    /\ Item(last.recv, last.path) = last.val[1]

\* =========================================================== goroutines
\* the calls a goroutine makes on the shared ModifiableDomain
ConcOps == {"Items", "Item", "ReadProperties", "WriteProperties", "Delete",
            "PutLink", "RemoveLink"}

\* the roles of the links the goroutines put and remove
ConcRoles == {"rel1"}

\* the arguments of a call: the calls that take an identifier all address
\* the same member
ConcArgs(op) ==
    IF op \in {"Items", "ReadProperties"} THEN {<<>>}
    ELSE IF op \in {"PutLink", "RemoveLink"} THEN ConcRoles
    ELSE {PlainId}

\* the first operation a call makes on the domain
FirstCallee(op) ==
    CASE op = "ReadProperties" -> "Items"
      [] op = "WriteProperties" -> "Item"
      [] op = "Delete" -> "DeleteItem"
      [] OTHER -> op

\* the mutex an operation locks
LockOf(callee) ==
    IF callee \in {"Items", "Item", "PutItem", "RemoveItem"} THEN "objects"
    ELSE IF callee \in {"ReadLinks", "PutLink", "RemoveLink"} THEN "lobj"
    ELSE "None"

\* where an operation starts: with RLock, with Lock, or with no lock at all
EntryPc(callee) ==
    IF callee \in {"Items", "Item", "ReadLinks"} THEN "rlock"
    ELSE IF callee \in {"PutItem", "RemoveItem", "PutLink", "RemoveLink"} THEN "lockw"
    ELSE "cap"

\* the goroutine p goes on with the operation callee
Enter(p, callee, l) ==
    /\ pc' = [pc EXCEPT ![p] = EntryPc(callee)]
    /\ loc' = [loc EXCEPT ![p] = [l EXCEPT !.callee = callee, !.lock = LockOf(callee)]]

ConcFrame == UNCHANGED <<vars, httpVars, extVars>>

\* an RLock that does not wait for a writer (fault variant)
CanRLock_IgnoreWriter(m) == TRUE

\* sync.RWMutex.RLock returns when no writer has called Lock
CanRLock(m) == m.w = 0

\* sync.RWMutex.Lock returns when the readers inside have left
CanLock(m) == m.readers = 0

\* an RUnlock that leaves the reader count as it is (fault variant)
RUnlockMutex_Keep(m) == m

\* sync.RWMutex.RUnlock
RUnlockMutex(m) == [m EXCEPT !.readers = @ - 1]

\* sync.RWMutex.Unlock
UnlockMutex(m) == [m EXCEPT !.w = 0, !.writing = FALSE]

\* a goroutine calls the Service or the collection
ConcCall(p, op, id) ==
    /\ pc[p] = "idle"
    /\ Enter(p, FirstCallee(op), [NoLocals EXCEPT !.op = op, !.id = id])
    /\ UNCHANGED <<cobjects, mutex>>
    /\ ConcFrame

\* c.mutex.RLock() of Items, Item and ReadLinks
RLock(p) ==
    /\ pc[p] = "rlock"
    /\ CanRLock(mutex[loc[p].lock])
    /\ mutex' = [mutex EXCEPT ![loc[p].lock] = [@ EXCEPT !.readers = @ + 1]]
    /\ pc' = [pc EXCEPT ![p] =
                 CASE loc[p].callee = "Items" ->
                          IF DOMAIN cobjects.objects = {} THEN "runlock" ELSE "copy"
                   [] loc[p].callee = "Item" -> "read"
                   [] OTHER -> "rdlinks"]
    /\ loc' = [loc EXCEPT ![p] = [@ EXCEPT !.snap = cobjects.objects,
                                           !.rem = IF loc[p].callee = "Items"
                                                   THEN DOMAIN cobjects.objects ELSE {}]]
    /\ UNCHANGED cobjects
    /\ ConcFrame

\* one iteration of the loop of Items: r = append(r, i), in the order of
\* the map, which is any order
CopyItem(p) ==
    /\ pc[p] = "copy"
    /\ \E k \in loc[p].rem :
          /\ loc' = [loc EXCEPT ![p] = [@ EXCEPT !.res = Append(@, MapGet(cobjects.objects, k)),
                                                 !.rem = @ \ {k}]]
          /\ pc' = [pc EXCEPT ![p] = IF loc[p].rem = {k} THEN "runlock" ELSE "copy"]
    /\ UNCHANGED <<cobjects, mutex>>
    /\ ConcFrame

\* r, ok := c.objects[id] of Item
ReadItem(p) ==
    /\ pc[p] = "read"
    /\ loc' = [loc EXCEPT ![p] = [@ EXCEPT !.found = MapGet(cobjects.objects, loc[p].id),
                                           !.ok = loc[p].id \in DOMAIN cobjects.objects]]
    /\ pc' = [pc EXCEPT ![p] = "runlock"]
    /\ UNCHANGED <<cobjects, mutex>>
    /\ ConcFrame

\* the loop of ReadLinks
CopyLinks(p) ==
    /\ pc[p] = "rdlinks"
    /\ loc' = [loc EXCEPT ![p] = [@ EXCEPT !.links = cobjects.lobj]]
    /\ pc' = [pc EXCEPT ![p] = "runlock"]
    /\ UNCHANGED <<cobjects, mutex>>
    /\ ConcFrame

\* the deferred c.mutex.RUnlock(); the caller then goes on: ReadProperties
\* with ReadLinks, WriteProperties with setAttr or CreateItem
RUnlock(p) ==
    /\ pc[p] = "runlock"
    /\ mutex' = [mutex EXCEPT ![loc[p].lock] = RUnlockMutex(@)]
    /\ LET l == [loc[p] EXCEPT !.snap = EmptyMap]
       IN IF loc[p].op = "ReadProperties" /\ loc[p].callee = "Items"
          THEN Enter(p, "ReadLinks", l)
          ELSE IF loc[p].op = "WriteProperties"
          THEN Enter(p, IF loc[p].ok THEN "setAttr" ELSE "CreateItem", l)
          ELSE /\ pc' = [pc EXCEPT ![p] = "ret"]
               /\ loc' = [loc EXCEPT ![p] = l]
    /\ UNCHANGED cobjects
    /\ ConcFrame

\* the calls made with no lock: setAttr invokes the attribute writer,
\* ModifiableDomain.CreateItem invokes CreateFunc, which constructs the item
\* and puts it into the domain, Service.Delete invokes DeleteItem, which
\* removes the item
Capability(p) ==
    /\ pc[p] = "cap"
    /\ CASE loc[p].callee = "setAttr" ->
              /\ pc' = [pc EXCEPT ![p] = "ret"]
              /\ loc' = loc
         [] loc[p].callee = "CreateItem" ->
              Enter(p, "PutItem", [loc[p] EXCEPT !.obj = NewObject(loc[p].id, p)])
         [] OTHER -> Enter(p, "RemoveItem", loc[p])
    /\ UNCHANGED <<cobjects, mutex>>
    /\ ConcFrame

\* c.mutex.Lock(), first half: the writer excludes the other writers and
\* the readers that come after it
LockAnnounce(p) ==
    /\ pc[p] = "lockw"
    /\ mutex[loc[p].lock].w = 0
    /\ mutex' = [mutex EXCEPT ![loc[p].lock] = [@ EXCEPT !.w = p]]
    /\ pc' = [pc EXCEPT ![p] = "lock"]
    /\ UNCHANGED <<cobjects, loc>>
    /\ ConcFrame

\* c.mutex.Lock(), second half: the writer waits for the readers inside
LockAcquire(p) ==
    /\ pc[p] = "lock"
    /\ CanLock(mutex[loc[p].lock])
    /\ mutex' = [mutex EXCEPT ![loc[p].lock] = [@ EXCEPT !.writing = TRUE]]
    /\ pc' = [pc EXCEPT ![p] = "wread"]
    /\ UNCHANGED <<cobjects, loc>>
    /\ ConcFrame

\* pobj := c.objects[id] of PutItem and RemoveItem, _, ok := l.lobj[li] of
\* PutLink and RemoveLink
WriterRead(p) ==
    /\ pc[p] = "wread"
    /\ loc' = [loc EXCEPT ![p] =
                  IF loc[p].lock = "objects"
                  THEN [@ EXCEPT !.pobj = MapGet(cobjects.objects, loc[p].id)]
                  ELSE [@ EXCEPT !.ok = loc[p].id \in cobjects.lobj]]
    /\ pc' = [pc EXCEPT ![p] = "wwrite"]
    /\ UNCHANGED <<cobjects, mutex>>
    /\ ConcFrame

\* c.objects[id] = obj, delete(c.objects, id), l.lobj[li] = struct{}{} and
\* delete(l.lobj, li)
WriterWrite(p) ==
    /\ pc[p] = "wwrite"
    /\ cobjects' =
          CASE loc[p].callee = "PutItem" ->
                   [cobjects EXCEPT !.objects = MapPut(@, loc[p].id, loc[p].obj)]
            [] loc[p].callee = "RemoveItem" ->
                   [cobjects EXCEPT !.objects = MapDelete(@, loc[p].id)]
            [] loc[p].callee = "PutLink" ->
                   [cobjects EXCEPT !.lobj = @ \cup {loc[p].id}]
            [] OTHER -> [cobjects EXCEPT !.lobj = @ \ {loc[p].id}]
    /\ pc' = [pc EXCEPT ![p] = "unlock"]
    /\ UNCHANGED <<mutex, loc>>
    /\ ConcFrame

\* the deferred c.mutex.Unlock()
Unlock(p) ==
    /\ pc[p] = "unlock"
    /\ mutex' = [mutex EXCEPT ![loc[p].lock] = UnlockMutex(@)]
    /\ pc' = [pc EXCEPT ![p] = "ret"]
    /\ UNCHANGED <<cobjects, loc>>
    /\ ConcFrame

\* the call returns and its locals are gone: WriteProperties reports
\* created after CreateItem, DeleteItem reports 404 when RemoveItem
\* returned nil
ConcReturn(p) ==
    /\ pc[p] = "ret"
    /\ loc' = [loc EXCEPT ![p] =
                  [NoLocals EXCEPT
                      !.op = loc[p].op, !.id = loc[p].id, !.obj = loc[p].obj,
                      !.created = (loc[p].op = "WriteProperties" /\ loc[p].callee = "PutItem"),
                      !.code = IF loc[p].op = "Delete" /\ loc[p].pobj = Nil
                               THEN StatusNotFound ELSE 0]]
    /\ pc' = [pc EXCEPT ![p] = "done"]
    /\ UNCHANGED <<cobjects, mutex>>
    /\ ConcFrame

\* the members the domain has when the goroutines start
InitialMembers == {[k \in S |-> NewObject(k, 0)] : S \in SUBSET ConcIds}

InitConc ==
    /\ InitTree
    /\ HandlerAtRest
    /\ cobjects \in {[objects |-> m, lobj |-> {}] : m \in InitialMembers}
    /\ mutex = [l \in Locks |-> FreeMutex]
    /\ pc = [p \in Procs |-> "idle"]
    /\ loc = [p \in Procs |-> NoLocals]
    /\ ExtAtRest

\* the steps of goroutine p after its call
ProcStep(p) ==
    \/ RLock(p) \/ CopyItem(p) \/ ReadItem(p) \/ CopyLinks(p) \/ RUnlock(p)
    \/ Capability(p) \/ LockAnnounce(p) \/ LockAcquire(p) \/ WriterRead(p)
    \/ WriterWrite(p) \/ Unlock(p) \/ ConcReturn(p)

NextConc ==
    \/ \E p \in Procs : \E op \in ConcOps : \E id \in ConcArgs(op) : ConcCall(p, op, id)
    \/ \E p \in Procs : RLock(p)
    \/ \E p \in Procs : CopyItem(p)
    \/ \E p \in Procs : ReadItem(p)
    \/ \E p \in Procs : CopyLinks(p)
    \/ \E p \in Procs : RUnlock(p)
    \/ \E p \in Procs : Capability(p)
    \/ \E p \in Procs : LockAnnounce(p)
    \/ \E p \in Procs : LockAcquire(p)
    \/ \E p \in Procs : WriterRead(p)
    \/ \E p \in Procs : WriterWrite(p)
    \/ \E p \in Procs : Unlock(p)
    \/ \E p \in Procs : ConcReturn(p)

SpecConc == InitConc /\ [][NextConc]_allVars

\* every goroutine makes its call, and the Go scheduler runs every
\* goroutine that can take a step
FairSpecConc ==
    SpecConc /\ \A p \in Procs :
        WF_allVars(ProcStep(p) \/ \E op \in ConcOps : \E id \in ConcArgs(op) : ConcCall(p, op, id))


\* ------------------------------------------------------------------ C37
\* goroutine p has returned from WriteProperties with created = true
ReportedCreated(p) == pc[p] = "done" /\ loc[p].op = "WriteProperties" /\ loc[p].created

\* the items the WriteProperties calls of the other goroutines created
CreatedByOthers(p) ==
    {loc[q].obj : q \in {r \in Procs \ {p} : loc[r].op = "WriteProperties"}} \ {Nil}

\* the PutItem of the WriteProperties call of p has replaced the item pobj
Replaced(p) ==
    IF /\ loc[p].op = "WriteProperties"
       /\ loc[p].callee = "PutItem"
       /\ pc[p] \in {"wwrite", "unlock", "ret"}
    THEN loc[p].pobj ELSE Nil

\* C37: of two concurrent WriteProperties calls on the same path that
\* does not exist, at most one reports created = true, and none replaces
\* the item the other has created.
C37_OneCreator ==
    /\ \A p, q \in Procs : (ReportedCreated(p) /\ ReportedCreated(q) /\ loc[p].id = loc[q].id) => p = q
    /\ \A p \in Procs : Replaced(p) \notin CreatedByOthers(p)

\* ------------------------------------------- properties: the two locks
\* goroutine p is between RLock and RUnlock of lock l
InRead(p, l) == pc[p] \in {"copy", "read", "rdlinks", "runlock"} /\ loc[p].lock = l

\* goroutine p is between Lock and Unlock of lock l
InWrite(p, l) == pc[p] \in {"wread", "wwrite", "unlock"} /\ loc[p].lock = l

Inside(p, l) == InRead(p, l) \/ InWrite(p, l)

Range(f) == {f[x] : x \in DOMAIN f}

\* while a reader is inside, the member map is the one it found at RLock
\* and no mutation is under way; what Items and Item return is taken from
\* that map
MembershipSnapshot ==
    \A p \in Procs : InRead(p, "objects") =>
        /\ loc[p].snap = cobjects.objects
        /\ \A q \in Procs : ~InWrite(q, "objects")
        /\ (loc[p].callee = "Items" /\ pc[p] = "runlock") =>
              /\ Range(loc[p].res) = Range(loc[p].snap)
              /\ Len(loc[p].res) = Cardinality(DOMAIN loc[p].snap)
        /\ (loc[p].callee = "Item" /\ pc[p] = "runlock") =>
              /\ loc[p].found = MapGet(loc[p].snap, loc[p].id)
              /\ loc[p].ok = (loc[p].id \in DOMAIN loc[p].snap)

\* a writer inside excludes every other goroutine from the same lock
WriterExcludesAll ==
    \A l \in Locks : \A p \in Procs : \A q \in Procs \ {p} :
        InWrite(p, l) => ~Inside(q, l)

\* C12: under any interleaving of Items and Item with PutItem and
\* RemoveItem on the same collection, every Items result is the member set
\* of one point between completed mutations, every Item result is the
\* member under the identifier at such a point, and a writer is never
\* inside together with another reader or writer
C12_AtomicMembership == MembershipSnapshot /\ WriterExcludesAll

\* Items is half way through its copy of two members while RemoveItem of
\* another goroutine waits in Lock for it to leave
C12_Witness ==
    \E p \in Procs : \E q \in Procs \ {p} :
        /\ pc[p] = "copy" /\ Len(loc[p].res) = 1 /\ Cardinality(loc[p].rem) = 1
        /\ pc[q] = "lock" /\ loc[q].callee = "RemoveItem"

\* two readers are inside the collection at the same time
C12_ReadersOverlap ==
    \E p \in Procs : \E q \in Procs \ {p} : InRead(p, "objects") /\ InRead(q, "objects")


\* every lock is held exactly by the goroutines that are inside one of the
\* operations that lock it
LocksBalanced ==
    \A l \in Locks :
        /\ mutex[l].readers = Cardinality({p \in Procs : InRead(p, l)})
        /\ mutex[l].writing = (\E p \in Procs : InWrite(p, l))
        /\ mutex[l].w # 0 =>
              /\ pc[mutex[l].w] \in {"lock", "wread", "wwrite", "unlock"}
              /\ loc[mutex[l].w].lock = l

\* a goroutine that invokes a capability, CreateFunc or DeleteItem, or is
\* outside of every operation, has no lock
NoLockAtCall ==
    \A p \in Procs : pc[p] \in {"idle", "cap", "ret", "done"} =>
        \A l \in Locks : mutex[l].w # p /\ ~Inside(p, l)

\* C13: no lock of a collection or a link set is held while a request
\* invokes a capability or another object's operation, every lock is taken
\* and released within one operation, and every concurrent request, the
\* creating WriteProperties and Delete included, runs to completion
C13_NoDeadlock ==
    /\ []LocksBalanced
    /\ []NoLockAtCall
    /\ <>(\A p \in Procs : pc[p] = "done")

\* a WriteProperties that creates an item waits in Lock of PutItem while
\* the RemoveItem of a Delete is inside the same collection
C13_Witness ==
    \E p \in Procs : \E q \in Procs \ {p} :
        /\ loc[p].op = "WriteProperties" /\ loc[p].callee = "PutItem" /\ pc[p] = "lockw"
        /\ loc[q].op = "Delete" /\ InWrite(q, "objects")


\* ============================================================== handler
pvMarker == <<"~pv">>
histMarker == <<"~hist">>

\* default max. size of a valid request: 1 * 1024 * 1024
defaultRequestSizeLimit == 1048576

\* nanoseconds per millisecond: the factor of time.Unix(0, ts*1000000)
NanosPerMilli == 1000000
defaultHistorySizeLimit == 10000
HoursBack == 24
MillisPerHour == 3600000

\* strings.HasPrefix and strings.TrimPrefix
HasPrefix(str, prefix) ==
    Len(str) >= Len(prefix) /\ SubSeq(str, 1, Len(prefix)) = prefix
TrimPrefix(str, prefix) ==
    IF HasPrefix(str, prefix) THEN SubSeq(str, Len(prefix) + 1, Len(str)) ELSE str

\* path.IsAbs
IsAbs(p) == p # <<>> /\ p[1] = "/"

\* the division of Go, which truncates towards zero
GoDiv(a, b) == IF a >= 0 THEN a \div b ELSE -((-a) \div b)

\* Handler.requestSizeLimit
requestSizeLimit(h) ==
    IF h.RequestSizeLimit = 0 THEN defaultRequestSizeLimit ELSE h.RequestSizeLimit

\* a reader that already fails at the limit (fault variant)
TooLarge_AtLimit(len, limit) == len >= limit

\* http.MaxBytesReader: reading fails when the body has more than limit
\* bytes
TooLarge(len, limit) == len > limit

\* veap.NewErrorf: an error that implements veap.Error
NewErrorf(code, msg) == [kind |-> "Error", code |-> code, msg |-> msg]

\* fmt.Errorf: an error that does not implement veap.Error
FmtErrorf(msg) == [kind |-> "error", code |-> 0, msg |-> msg]

\* json.Unmarshal(b, &w) with w a wirePV: a field that is missing keeps
\* the zero value
UnmarshalPV(b) ==
    IF b.kind # "pv" THEN [ok |-> FALSE, w |-> <<>>]
    ELSE [ok |-> TRUE,
          w |-> [Time |-> IF "ts" \in b.has THEN b.ts ELSE 0,
                 Value |-> IF "v" \in b.has THEN b.v ELSE "nil",
                 State |-> IF "s" \in b.has THEN b.s ELSE 0]]

\* json.Unmarshal(b, &w) with w a wireHist: a missing array is a nil slice
UnmarshalHist(b) ==
    IF b.kind # "hist" THEN [ok |-> FALSE, w |-> <<>>]
    ELSE [ok |-> TRUE, w |-> [Times |-> b.ts, Values |-> b.v, States |-> b.s]]

\* json.Unmarshal(b, &attr) with attr a map[string]interface{}
UnmarshalAttr(b) ==
    IF b.kind # "attr" THEN [ok |-> FALSE, w |-> <<>>]
    ELSE [ok |-> TRUE, w |-> b.attr]

\* a wireToPV that keeps a zero timestamp (fault variant)
wireToPV_KeepZero(w, now) ==
    [Time |-> w.Time * NanosPerMilli, Value |-> w.Value, State |-> w.State]

\* wireToPV: if no timestamp is provided, the current time is used
wireToPV(w, now) ==
    [Time |-> IF w.Time = 0 THEN now ELSE w.Time * NanosPerMilli,
     Value |-> w.Value, State |-> w.State]

\* a pvToWire that rounds the time up to the next millisecond (fault
\* variant)
pvToWire_RoundUp(pv) ==
    [Time |-> GoDiv(pv.Time + NanosPerMilli - 1, NanosPerMilli), Value |-> pv.Value,
     State |-> pv.State]

\* pvToWire: the time in whole milliseconds since the epoch
pvToWire(pv) ==
    [Time |-> GoDiv(pv.Time, NanosPerMilli), Value |-> pv.Value, State |-> pv.State]

\* a histToWire that writes the entries last to first (fault variant)
histToWire_Reversed(hist) ==
    [Times |-> [i \in 1..Len(hist) |-> GoDiv(hist[Len(hist) + 1 - i].Time, NanosPerMilli)],
     Values |-> [i \in 1..Len(hist) |-> hist[Len(hist) + 1 - i].Value],
     States |-> [i \in 1..Len(hist) |-> hist[Len(hist) + 1 - i].State]]

\* histToWire: the times in whole milliseconds, the values and the states
histToWire(hist) ==
    [Times |-> [i \in 1..Len(hist) |-> GoDiv(hist[i].Time, NanosPerMilli)],
     Values |-> [i \in 1..Len(hist) |-> hist[i].Value],
     States |-> [i \in 1..Len(hist) |-> hist[i].State]]

\* a length check that accepts longer value and state arrays (fault
\* variant)
SameLength_AtLeast(w) == Len(w.Values) >= Len(w.Times) /\ Len(w.States) >= Len(w.Times)

\* the length check of wireToHist
SameLength(w) == Len(w.Values) = Len(w.Times) /\ Len(w.States) = Len(w.Times)

wireToHist(w) ==
    IF ~SameLength(w)
    THEN [err |-> NewErrorf(StatusBadRequest, <<"History arrays must have same length">>),
          hist |-> <<>>]
    ELSE [err |-> NoError,
          hist |-> [i \in 1..Len(w.Times) |->
                       [Time |-> w.Times[i] * NanosPerMilli, Value |-> w.Values[i],
                        State |-> w.States[i]]]]

\* a time.Time far from the epoch: whole milliseconds since the epoch
\* and the nanoseconds within the millisecond
UnixTime(nsec) == [ms |-> nsec \div NanosPerMilli, ns |-> nsec % NanosPerMilli]

\* Time.Add of a number of milliseconds
AddMillis(t, d) == [ms |-> t.ms + d, ns |-> t.ns]

\* a begin that is the end itself (fault variant)
DayBefore_Same(e) == e

\* e.Add(-24 * time.Hour)
DayBefore(e) == AddMillis(e, -(HoursBack * MillisPerHour))

\* the digits of strconv.ParseInt with base 10
Digits == <<"0", "1", "2", "3", "4", "5", "6", "7", "8", "9">>
IsDigit(c) == \E d \in 1..10 : Digits[d] = c
DigitVal(c) == (CHOOSE d \in 1..10 : Digits[d] = c) - 1

RECURSIVE ParseUint(_)
ParseUint(txt) ==
    IF txt = <<>> THEN 0
    ELSE ParseUint(SubSeq(txt, 1, Len(txt) - 1)) * 10 + DigitVal(txt[Len(txt)])

\* strconv.ParseInt(txt, 10, 64): an optional sign and at least one digit
ParseInt(txt) ==
    LET signed == txt # <<>> /\ txt[1] \in {"-", "+"}
        digits == IF signed THEN Tail(txt) ELSE txt
    IN IF digits = <<>> \/ \E i \in 1..Len(digits) : ~IsDigit(digits[i])
       THEN [ok |-> FALSE, n |-> 0]
       ELSE [ok |-> TRUE,
             n |-> IF signed /\ txt[1] = "-" THEN -ParseUint(digits) ELSE ParseUint(digits)]

\* parseIntParam: nil for a parameter that is not given, an error for a
\* parameter given more than once or not as an integer
parseIntParam(params, name) ==
    LET values == params[name]
    IN IF values = <<>> THEN [err |-> NoError, nil |-> TRUE, i |-> 0]
       ELSE IF Len(values) # 1
       THEN [err |-> NewErrorf(StatusBadRequest, <<"Invalid request parameter: ", name>>),
             nil |-> TRUE, i |-> 0]
       ELSE IF ~ParseInt(values[1]).ok
       THEN [err |-> NewErrorf(StatusBadRequest,
                               <<"Invalid request parameter ", name, ": ", "invalid syntax">>),
             nil |-> TRUE, i |-> 0]
       ELSE [err |-> NoError, nil |-> FALSE, i |-> ParseInt(values[1]).n]

\* parseTimeParam: the parameter as milliseconds since the epoch
parseTimeParam(params, name) ==
    LET p == parseIntParam(params, name)
    IN [err |-> p.err, nil |-> p.nil, t |-> UnixTime(p.i * NanosPerMilli)]

\* Handler.historySizeLimit
historySizeLimit(h) ==
    IF h.HistorySizeLimit = 0 THEN defaultHistorySizeLimit ELSE h.HistorySizeLimit

\* a limit that is passed on as requested (fault variant)
ClampLimit_Keep(limit, maxLimit) == limit

\* serveHistory: a limit above the maximum becomes the maximum
ClampLimit(limit, maxLimit) == IF limit > maxLimit THEN maxLimit ELSE limit

\* serveHistory up to the call of the Service: the parameters begin, end
\* and limit of handler h at time now
historyParams(h, now) ==
    LET begin == parseTimeParam(h.query, "begin")
        end == parseTimeParam(h.query, "end")
        limit == parseIntParam(h.query, "limit")
        maxLimit == historySizeLimit(h)
        none == [err |-> NoError, begin |-> UnixTime(0), end |-> UnixTime(0), limit |-> 0]
    IN IF begin.err # NoError THEN [none EXCEPT !.err = begin.err]
       ELSE IF end.err # NoError THEN [none EXCEPT !.err = end.err]
       ELSE IF begin.nil # end.nil
       THEN [none EXCEPT !.err = NewErrorf(StatusBadRequest,
                                   <<"Missing request parameter: ",
                                     IF ~begin.nil THEN "end" ELSE "begin">>)]
       ELSE IF limit.err # NoError THEN [none EXCEPT !.err = limit.err]
       ELSE [err |-> NoError,
             begin |-> IF begin.nil THEN DayBefore(UnixTime(now)) ELSE begin.t,
             end |-> IF end.nil THEN UnixTime(now) ELSE end.t,
             limit |-> IF limit.nil THEN maxLimit ELSE ClampLimit(limit.i, maxLimit)]

\* the links of serveProperties: an absolute target gets the URL prefix
wireLinks(links, prefix) ==
    [i \in 1..Len(links) |->
        [rel |-> links[i].Role,
         href |-> IF IsAbs(links[i].Target) THEN prefix \o links[i].Target
                  ELSE links[i].Target,
         title |-> links[i].Title]]

\* the map serveProperties encodes: the attributes, and the links under
\* ~links when there are any
wireProperties(attr, links, prefix) ==
    IF Len(links) > 0
    THEN [attr |-> attr, links |-> wireLinks(links, prefix)]
    ELSE [attr |-> attr]

\* a wireLink that is encoded with its empty title (fault variant)
MarshalLink_KeepTitle(l) == l

\* json.Marshal of a wireLink: title has the option omitempty
MarshalLink(l) == IF l.title = "" THEN [rel |-> l.rel, href |-> l.href] ELSE l

\* json.Marshal of the map of serveProperties
MarshalProperties(w) ==
    IF "links" \in DOMAIN w
    THEN [attr |-> w.attr, links |-> [i \in 1..Len(w.links) |-> MarshalLink(w.links[i])]]
    ELSE w

\* json.Marshal fails for a value JSON has no encoding for
Encodable(v) == v # "NaN"

\* an http.Error that writes nothing (fault variant)
HttpError_Silent(w, msg, code) == w

\* http.Error on response writer w: sets the content type, writes the
\* header and then the message with a newline; a header that is already
\* written stays
HttpError(w, msg, code) ==
    [headers |-> w.headers + 1,
     status |-> IF w.headers = 0 THEN code ELSE w.status,
     contentType |-> IF w.headers = 0 THEN "text/plain; charset=utf-8" ELSE w.contentType,
     writes |-> w.writes + 1,
     body |-> w.body \o msg \o <<"\n">>,
     delivered |-> w.delivered]

\* an error status that replaces the internal code 900 by 500 (variant
\* that keeps StatusClientError off the wire)
ErrorStatus_NoClientError(err) ==
    IF err.kind = "Error" /\ err.code # StatusClientError THEN err.code
    ELSE StatusInternalServerError

\* the status of the error response of ServeHTTP
ErrorStatus(err) ==
    IF err.kind = "Error" THEN err.code ELSE StatusInternalServerError

\* Handler.errorResponse
errorResponse(code, msg) ==
    /\ hstats' = [hstats EXCEPT !.ErrorResponses = @ + 1, !.ResponseBytes = Append(@, msg)]
    /\ hresp' = HttpError(hresp, msg, code)
    /\ hpc' = "done"

HandlerFrame == UNCHANGED <<vars, concVars, extVars>>

\* the requests
Methods == {"GET", "PUT", "DELETE", "POST"}
URLPrefixes == {<<>>, <<"/", "veap">>}
HandlerPaths ==
    {<<"/", "a", "/", "~pv">>, <<"/", "a", "/", "~pv", "/">>, <<"/", "a", "/", "~hist">>,
     <<"/", "~hist">>, <<"/", "a">>, <<"/", "a", "/", "b">>}
RequestSizeLimits == {0, 10}

\* the query of a GET on the history of /a: begin, end and limit, each
\* not given, given once as an integer, given once as something else or
\* given twice
BeginParams == {<<>>, <<<<"1">>>>, <<<<"x">>>>}
EndParams == {<<>>, <<<<"3">>>>, <<<<"-", "2">>>>}
LimitParams ==
    {<<>>, <<<<"5">>>>, <<<<"1", "2", "0", "0", "0">>>>, <<<<"-", "1">>>>, <<<<"5">>, <<"7">>>>}
NoQuery == [begin |-> <<>>, end |-> <<>>, limit |-> <<>>]
HistoryRequest(method, path, prefix) ==
    method = "GET" /\ path = <<"/", "a", "/">> \o histMarker /\ prefix = <<>>
Queries(method, path, prefix) ==
    IF HistoryRequest(method, path, prefix)
    THEN {[begin |-> b, end |-> e, limit |-> l] :
            b \in BeginParams, e \in EndParams, l \in LimitParams}
    ELSE {NoQuery}
HistorySizeLimits(method, path, prefix) ==
    IF HistoryRequest(method, path, prefix) THEN {0, 7} ELSE {0}

BodyLengths(limit) == {5, limit, limit + 1}

Malformed == [kind |-> "malformed"]
NoBody == [kind |-> "none"]
PVBodies ==
    {[kind |-> "pv", has |-> H, ts |-> t, v |-> "123.456", s |-> 42] :
        H \in SUBSET {"ts", "v", "s"}, t \in {0, 1234}}
HistBodies ==
    {[kind |-> "hist", ts |-> t, v |-> v, s |-> st] :
        t \in {<<>>, <<1>>, <<1, 2>>}, v \in {<<>>, <<"3">>, <<"3", "4">>},
        st \in {<<>>, <<5>>, <<5, 6>>}}
AttrBodies == {[kind |-> "attr", attr |-> "title"]}

\* the bodies sent with a request
Bodies(method, path) ==
    IF method # "PUT" THEN {NoBody}
    ELSE {Malformed} \cup
         (CASE Base(path) = pvMarker -> {b \in PVBodies : "ts" \in b.has \/ b.ts = 0}
            [] Base(path) = histMarker -> HistBodies
            [] OTHER -> AttrBodies)

\* what time.Now returns
Clock == {2000000000, 2000000001}

\* what the Service returns
ServiceErrors ==
    {NewErrorf(StatusForbidden, <<"no access">>),
     NewErrorf(StatusClientError, <<"HTTP-GET on ", "url", " failed: ", "err">>)}
ServicePVs ==
    {[Time |-> 1234000000, Value |-> "123.456", State |-> 42],
     [Time |-> 1234567, Value |-> "NaN", State |-> 0]}
ServiceLinks ==
    {<<>>,
     <<[Role |-> "item", Target |-> <<"/", "a", "/", "b">>, Title |-> "B"],
       [Role |-> "collection", Target |-> <<"..">>, Title |-> ""]>>,
     <<[Role |-> "itf", Target |-> <<"..">>, Title |-> "Itf"],
       [Role |-> "dp", Target |-> <<"/", "c">>, Title |-> ""]>>}
ServiceOutcomes(op) ==
    {[err |-> e, val |-> <<>>, created |-> FALSE] : e \in ServiceErrors} \cup
    (CASE op = "ReadPV" -> {[err |-> NoError, val |-> pv, created |-> FALSE] : pv \in ServicePVs}
       [] op = "ReadHistory" ->
            {[err |-> NoError, val |-> h, created |-> FALSE] :
                h \in {<<>>} \cup {<<x, y>> : x \in ServicePVs, y \in ServicePVs}}
       [] op = "ReadProperties" ->
            {[err |-> NoError, val |-> [attr |-> a, links |-> l], created |-> FALSE] :
                a \in {"title", "NaN"}, l \in ServiceLinks}
       [] op = "WriteProperties" ->
            {[err |-> e, val |-> <<>>, created |-> c] :
                e \in {NoError, NewErrorf(StatusForbidden, <<"no access">>)}, c \in BOOLEAN}
       [] OTHER -> {[err |-> NoError, val |-> <<>>, created |-> FALSE]})

\* ServeHTTP up to the prefix check: counts the request, and answers a path
\* that does not start with URLPrefix with 404
Receive(method, path, query, body, len, limit, histLimit, prefix) ==
    /\ hpc = "idle"
    /\ hreq' = [method |-> method, path |-> path, query |-> query, len |-> len,
                body |-> body, RequestSizeLimit |-> limit, HistorySizeLimit |-> histLimit,
                URLPrefix |-> prefix]
    /\ IF ~HasPrefix(path, prefix)
       THEN /\ hstats' = [hstats EXCEPT !.Requests = @ + 1, !.ErrorResponses = @ + 1,
                             !.ResponseBytes =
                                Append(@, <<"URL prefix does not match: ">> \o PathUnescape(path).s)]
            /\ hresp' = HttpError(hresp, <<"URL prefix does not match: ">> \o PathUnescape(path).s,
                                  StatusNotFound)
            /\ hpc' = "done"
            /\ hloc' = [hloc EXCEPT !.fullPath = path]
       ELSE /\ hstats' = [hstats EXCEPT !.Requests = @ + 1]
            /\ hloc' = [hloc EXCEPT !.fullPath = TrimPrefix(path, prefix)]
            /\ hpc' = "read"
            /\ UNCHANGED hresp
    /\ UNCHANGED hcalls
    /\ HandlerFrame

\* ServeHTTP: ioutil.ReadAll through http.MaxBytesReader
ReadBody ==
    /\ hpc = "read"
    /\ IF TooLarge(hreq.len, requestSizeLimit(hreq))
       THEN errorResponse(StatusBadRequest,
                <<"Receiving of request failed: ", "http: request body too large">>)
       ELSE /\ hstats' = [hstats EXCEPT !.RequestBytes = @ + hreq.len]
            /\ hpc' = "dispatch"
            /\ UNCHANGED hresp
    /\ UNCHANGED <<hreq, hloc, hcalls>>
    /\ HandlerFrame

\* the handler invokes operation op of the Service
InvokeService(op, path, arg) ==
    /\ hcalls' = Append(hcalls, [op |-> op, path |-> path, arg |-> arg])
    /\ hloc' = [hloc EXCEPT !.respCode = StatusOK]
    /\ hpc' = "service"
    /\ UNCHANGED <<hstats, hresp>>

\* serveSetPV, serveSetHistory or serveSetProperties returns an error of
\* its own
Fail(err) ==
    /\ hloc' = [hloc EXCEPT !.respCode = StatusOK, !.err = err]
    /\ hpc' = "respond"
    /\ UNCHANGED <<hstats, hresp, hcalls>>

\* the 405 of ServeHTTP
MethodNotAllowed(what) ==
    /\ errorResponse(StatusMethodNotAllowed,
           <<"Method ", hreq.method, " not allowed for ">> \o what \o hloc.fullPath)
    /\ UNCHANGED <<hloc, hcalls>>

\* ServeHTTP: the switch over path.Base(fullPath) and the method, up to
\* the call of the Service
Dispatch(now) ==
    /\ hpc = "dispatch"
    /\ LET fullPath == hloc.fullPath
           pv == UnmarshalPV(hreq.body)
           wh == UnmarshalHist(hreq.body)
           at == UnmarshalAttr(hreq.body)
           hq == historyParams(hreq, now)
       IN CASE Base(fullPath) = pvMarker ->
                 CASE hreq.method = "GET" -> InvokeService("ReadPV", Dir(fullPath), <<>>)
                   [] hreq.method = "PUT" ->
                        IF ~pv.ok
                        THEN Fail(NewErrorf(StatusBadRequest,
                                            <<"Conversion of JSON to PV failed: ">>))
                        ELSE InvokeService("WritePV", Dir(fullPath), wireToPV(pv.w, now))
                   [] OTHER -> MethodNotAllowed(<<"PV ">>)
            [] Base(fullPath) = histMarker ->
                 CASE hreq.method = "GET" ->
                        IF hq.err # NoError
                        THEN Fail(hq.err)
                        ELSE InvokeService("ReadHistory", Dir(fullPath),
                                           [begin |-> hq.begin, end |-> hq.end,
                                            limit |-> hq.limit])
                   [] hreq.method = "PUT" ->
                        IF ~wh.ok
                        THEN Fail(NewErrorf(StatusBadRequest,
                                            <<"Conversion of JSON to history failed: ">>))
                        ELSE IF wireToHist(wh.w).err # NoError
                        THEN Fail(wireToHist(wh.w).err)
                        ELSE InvokeService("WriteHistory", Dir(fullPath), wireToHist(wh.w).hist)
                   [] OTHER -> MethodNotAllowed(<<"history ">>)
            [] OTHER ->
                 CASE hreq.method = "GET" -> InvokeService("ReadProperties", fullPath, <<>>)
                   [] hreq.method = "PUT" ->
                        IF ~at.ok
                        THEN Fail(NewErrorf(StatusBadRequest,
                                            <<"Conversion of JSON to attributes failed: ">>))
                        ELSE InvokeService("WriteProperties", fullPath, at.w)
                   [] hreq.method = "DELETE" -> InvokeService("Delete", fullPath, <<>>)
                   [] OTHER -> MethodNotAllowed(<<>>)
    /\ UNCHANGED hreq
    /\ HandlerFrame

\* a handler that answers every write of properties with 201 (fault
\* variant)
CreatedStatus_Always(created, respCode) == StatusCreated

\* ServeHTTP: if created { respCode = http.StatusCreated }
CreatedStatus(created, respCode) == IF created THEN StatusCreated ELSE respCode

\* what json.Marshal is given for the result of a read
WireValue(op, val, prefix) ==
    CASE op = "ReadPV" -> pvToWire(val)
      [] op = "ReadHistory" -> histToWire(val)
      [] OTHER -> MarshalProperties(wireProperties(val.attr, val.links, prefix))

\* true iff json.Marshal can encode the result of a read
ResultEncodable(op, val) ==
    CASE op = "ReadPV" -> Encodable(val.Value)
      [] op = "ReadHistory" -> \A i \in 1..Len(val) : Encodable(val[i].Value)
      [] OTHER -> Encodable(val.attr)

\* the Service returns, and servePV, serveHistory, serveProperties encode
\* its result
ServiceReturn(out) ==
    /\ hpc = "service"
    /\ LET op == hcalls[Len(hcalls)].op
       IN hloc' =
             IF out.err # NoError
             THEN [hloc EXCEPT !.err = out.err, !.created = out.created,
                               !.respCode = CreatedStatus(out.created, @)]
             ELSE IF op \in {"ReadPV", "ReadHistory", "ReadProperties"}
             THEN IF ResultEncodable(op, out.val)
                  THEN [hloc EXCEPT !.respBytes = <<WireValue(op, out.val, hreq.URLPrefix)>>,
                                    !.props = IF op = "ReadProperties" THEN out.val ELSE @]
                  ELSE [hloc EXCEPT !.err = FmtErrorf(<<"Conversion to JSON failed: ">>)]
             ELSE [hloc EXCEPT !.created = out.created,
                               !.respCode = CreatedStatus(out.created, @)]
    /\ hpc' = "respond"
    /\ UNCHANGED <<hreq, hresp, hcalls, hstats>>
    /\ HandlerFrame

\* ServeHTTP: the error response or the OK response; sent tells whether
\* respWriter.Write returned without error, which the handler only logs
Respond(sent) ==
    /\ hpc = "respond"
    /\ IF hloc.err # NoError
       THEN /\ errorResponse(ErrorStatus(hloc.err), hloc.err.msg)
            /\ hloc' = [hloc EXCEPT !.respCode = ErrorStatus(hloc.err)]
       ELSE /\ hstats' = [hstats EXCEPT !.ResponseBytes = Append(@, hloc.respBytes)]
            /\ hresp' = [headers |-> hresp.headers + 1,
                         status |-> hloc.respCode,
                         contentType |-> "application/json",
                         writes |-> hresp.writes + 1,
                         body |-> hresp.body \o hloc.respBytes,
                         delivered |-> sent]
            /\ hpc' = "done"
            /\ UNCHANGED hloc
    /\ UNCHANGED <<hreq, hcalls>>
    /\ HandlerFrame

InitHandler ==
    /\ InitTree
    /\ ConcAtRest
    /\ HandlerAtRest
    /\ ExtAtRest

NextHandler ==
    \/ \E method \in Methods : \E pre \in URLPrefixes : \E p \in HandlerPaths :
         \E prefix \in URLPrefixes : \E limit \in RequestSizeLimits :
           \E body \in Bodies(method, p) :
             \E len \in BodyLengths(requestSizeLimit([RequestSizeLimit |-> limit])) :
               \E query \in Queries(method, pre \o p, prefix) :
                 \E histLimit \in HistorySizeLimits(method, pre \o p, prefix) :
                   Receive(method, pre \o p, query, body, len, limit, histLimit, prefix)
    \/ ReadBody
    \/ \E now \in Clock : Dispatch(now)
    \/ \E op \in {"ReadPV", "WritePV", "ReadHistory", "WriteHistory", "ReadProperties",
                  "WriteProperties", "Delete"} :
         \E out \in ServiceOutcomes(op) : hcalls # <<>> /\ hcalls[Len(hcalls)].op = op
                                           /\ ServiceReturn(out)
    \/ \E sent \in BOOLEAN : Respond(sent)

SpecHandler == InitHandler /\ [][NextHandler]_allVars


\* ---------------------------------------------- properties: the handler
\* the request was addressed to the tree of the handler and its body was
\* read or refused
BodyHandled == hpc \in {"dispatch", "service", "respond", "done"} /\ HasPrefix(hreq.path, hreq.URLPrefix)

\* the response that refuses a body that is too large
TooLargeResponse ==
    /\ hresp.status = StatusBadRequest
    /\ hresp.body = <<"Receiving of request failed: ", "http: request body too large", "\n">>

\* C14: a body of more bytes than RequestSizeLimit, which is 1 MiB when
\* unset, is answered with 400 and the message that receiving the request
\* failed because the body is too large, no Service method is invoked and
\* Stats.RequestBytes does not grow; a body of exactly the limit is
\* accepted and dispatched
C14_RequestSizeLimit ==
    BodyHandled =>
        IF hreq.len > (IF hreq.RequestSizeLimit = 0 THEN 1024 * 1024 ELSE hreq.RequestSizeLimit)
        THEN /\ hpc = "done"
             /\ TooLargeResponse
             /\ hresp.headers = 1
             /\ hcalls = <<>>
             /\ hstats.RequestBytes = 0
        ELSE /\ hstats.RequestBytes = hreq.len
             /\ ~TooLargeResponse
             /\ hpc = "done" =>
                   \/ Len(hcalls) = 1
                   \/ hresp.status = StatusMethodNotAllowed
                   \/ hresp.status = StatusBadRequest /\ hreq.body.kind \in {"malformed", "hist"}
                   \/ hresp.status = StatusBadRequest /\ hreq.query # NoQuery

\* a body one byte over the default limit was refused
C14_Witness ==
    /\ hpc = "done"
    /\ hreq.RequestSizeLimit = 0
    /\ hreq.len = defaultRequestSizeLimit + 1
    /\ TooLargeResponse
    /\ hstats.Requests = 1


\* the request got past the prefix check and the size limit
Dispatched ==
    /\ hpc \in {"service", "respond", "done"}
    /\ HasPrefix(hreq.path, hreq.URLPrefix)
    /\ hreq.len <= requestSizeLimit(hreq)

\* the last segment of path p: what follows its last slash
LastSegment(p) == SubSeq(p, LastIndex(p, "/") + 1, Len(p))

\* path p without its last segment and the slash before it, "/" for a
\* segment directly under the root
MinusLastSegment(p) ==
    IF LastIndex(p, "/") <= 1 THEN <<"/">> ELSE SubSeq(p, 1, LastIndex(p, "/") - 1)

\* the operation and the path the last segment and the verb select, op
\* "None" for a verb the sub-protocol does not have
Selected(p, method) ==
    CASE LastSegment(p) = pvMarker ->
           [op |-> CASE method = "GET" -> "ReadPV" [] method = "PUT" -> "WritePV"
                     [] OTHER -> "None",
            path |-> MinusLastSegment(p)]
      [] LastSegment(p) = histMarker ->
           [op |-> CASE method = "GET" -> "ReadHistory" [] method = "PUT" -> "WriteHistory"
                     [] OTHER -> "None",
            path |-> MinusLastSegment(p)]
      [] OTHER ->
           [op |-> CASE method = "GET" -> "ReadProperties" [] method = "PUT" -> "WriteProperties"
                     [] method = "DELETE" -> "Delete" [] OTHER -> "None",
            path |-> p]

\* C15: the handler invokes at most one Service operation per request,
\* selected by the last path segment and the verb only: ~pv and ~hist give
\* the value and history operations, called with the path minus the marker
\* segment, any other segment gives ReadProperties, WriteProperties and
\* Delete, called with the full escaped path, and every other verb gives
\* 405 with no Service operation invoked
C15_Dispatch ==
    Dispatched =>
        LET sel == Selected(hloc.fullPath, hreq.method)
        IN /\ Len(hcalls) <= 1
           /\ hcalls # <<>> => hcalls[1].op = sel.op /\ hcalls[1].path = sel.path
           /\ hreq.method \in {"GET", "DELETE"} /\ sel.op # "None" => Len(hcalls) = 1
           /\ sel.op = "None" =>
                 /\ hcalls = <<>>
                 /\ hpc = "done"
                 /\ hresp.status = StatusMethodNotAllowed


\* the content type http.Error sets
TextPlain == "text/plain; charset=utf-8"

\* C16: when the invoked Service operation returns a typed Error, the
\* status is the Code() of the error and the body its message followed by
\* a newline, with a text/plain content type; an error that is no typed
\* Error, as a failed JSON encoding of the result, gives 500; a request
\* body the handler cannot decode gives 400 and the Service is not invoked
C16_ErrorMapping ==
    (hpc = "done" /\ Dispatched) =>
        /\ (hcalls # <<>> /\ hloc.err.kind = "Error") =>
              /\ hresp.status = hloc.err.code
              /\ hresp.body = hloc.err.msg \o <<"\n">>
              /\ hresp.contentType = TextPlain
        /\ hloc.err.kind = "error" =>
              /\ hresp.status = StatusInternalServerError
              /\ hresp.contentType = TextPlain
        /\ (hreq.method = "PUT" /\ hreq.body.kind = "malformed") =>
              /\ hresp.status = StatusBadRequest
              /\ hresp.contentType = TextPlain
              /\ hcalls = <<>>

\* WritePV returned the typed error 403 "no access" and the handler has
\* answered
C16_Witness ==
    /\ hpc = "done"
    /\ Len(hcalls) = 1 /\ hcalls[1].op = "WritePV"
    /\ hloc.err = NewErrorf(StatusForbidden, <<"no access">>)
    /\ hresp.status = StatusForbidden
    /\ hresp.body = <<"no access", "\n">>

\* the response is a success response
SuccessResponse ==
    /\ hresp.status \in {StatusOK, StatusCreated}
    /\ hresp.contentType = "application/json"
    /\ hresp.body = hloc.respBytes
    /\ hloc.err = NoError

\* the response is an error response
ErrorResponse ==
    /\ hresp.status \notin {StatusOK, StatusCreated}
    /\ hresp.contentType = TextPlain
    /\ hresp.body # <<>> /\ hresp.body[Len(hresp.body)] = "\n"

\* nothing is written before the handler is done, and one header and one
\* body, of a success or of an error, when it is done
OneResponse ==
    /\ hpc # "done" => hresp = NoResponse
    /\ hpc = "done" =>
          /\ hresp.headers = 1
          /\ hresp.writes = 1
          /\ SuccessResponse \/ ErrorResponse
          /\ ~(SuccessResponse /\ ErrorResponse)

\* the response is written in one step, and what it is was decided before
\* that step: an error response iff the handler had an error or refused
\* the request itself
ResponseStep ==
    /\ hresp # NoResponse => hresp' = hresp
    /\ (hresp = NoResponse /\ hresp' # NoResponse) =>
          /\ hpc' = "done"
          /\ hpc = "respond" => (SuccessResponse' <=> hloc.err = NoError)
          /\ hpc # "respond" => ErrorResponse'

\* C17: for every request the handler writes exactly one response, a
\* success response (200 or 201, application/json, the complete body) or
\* an error response (status and plain-text message), never both and never
\* a success header followed by an error, and which of the two is decided
\* before any header or body byte is written
C17_OneResponse ==
    /\ [][ResponseStep]_allVars
    /\ []OneResponse

\* WriteProperties created an item and the handler has answered 201
C17_Witness ==
    /\ hpc = "done"
    /\ Len(hcalls) = 1 /\ hcalls[1].op = "WriteProperties"
    /\ hresp.headers = 1
    /\ hresp.status = StatusCreated
    /\ hresp.body = <<>>

\* C18: the handler never sends the status 900 (StatusClientError),
\* whatever error the Service returns, also when the Service is a Client
\* whose transport, size-limit and decode failures carry the code 900
C18_NoClientErrorOnWire == hresp.status # StatusClientError

\* the JSON body of the request is a PV
PutPV ==
    /\ Dispatched
    /\ hreq.method = "PUT"
    /\ LastSegment(hloc.fullPath) = pvMarker
    /\ hreq.body.kind = "pv"

\* C19: PUT on <path>/~pv with the JSON body {ts, v, s} invokes
\* WritePV(path, pv) exactly once, with pv.Time ts milliseconds after the
\* Unix epoch, pv.Value v and pv.State s, and answers 200 with an empty
\* body; a missing or zero ts is replaced by the current time and a
\* missing s becomes the state 0
C19_PutPV ==
    PutPV =>
        /\ Len(hcalls) = 1
        /\ hcalls[1].op = "WritePV"
        /\ hcalls[1].path = MinusLastSegment(hloc.fullPath)
        /\ IF "ts" \in hreq.body.has /\ hreq.body.ts # 0
           THEN hcalls[1].arg.Time = 1000000 * hreq.body.ts
           ELSE hcalls[1].arg.Time \in Clock
        /\ "v" \in hreq.body.has => hcalls[1].arg.Value = hreq.body.v
        /\ hcalls[1].arg.State = (IF "s" \in hreq.body.has THEN hreq.body.s ELSE 0)
        /\ (hpc = "done" /\ hloc.err = NoError) =>
              /\ hresp.status = StatusOK
              /\ hresp.body = <<>>
              /\ hresp.headers = 1

\* the PV of {"ts":1234,"v":123.456,"s":42} was written and answered
\* with 200
C19_Witness ==
    /\ PutPV /\ hpc = "done"
    /\ hcalls = <<[op |-> "WritePV", path |-> <<"/", "a">>,
                   arg |-> [Time |-> 1234000000, Value |-> "123.456", State |-> 42]]>>
    /\ hresp.status = StatusOK

\* the JSON body of the request is a history
PutHistory ==
    /\ Dispatched
    /\ hreq.method = "PUT"
    /\ LastSegment(hloc.fullPath) = histMarker
    /\ hreq.body.kind = "hist"

\* C20: PUT on ~hist with ts, v and s arrays that do not all have the
\* same length fails with 400 "History arrays must have same length" and
\* WriteHistory is not invoked; with equal lengths WriteHistory is invoked
\* once, with one PV per index i built from ts[i] ms, v[i] and s[i], in
\* the same order
C20_PutHistory ==
    PutHistory =>
        IF Len(hreq.body.ts) = Len(hreq.body.v) /\ Len(hreq.body.v) = Len(hreq.body.s)
        THEN /\ Len(hcalls) = 1
             /\ hcalls[1].op = "WriteHistory"
             /\ Len(hcalls[1].arg) = Len(hreq.body.ts)
             /\ \A i \in 1..Len(hreq.body.ts) :
                   /\ hcalls[1].arg[i].Time = 1000000 * hreq.body.ts[i]
                   /\ hcalls[1].arg[i].Value = hreq.body.v[i]
                   /\ hcalls[1].arg[i].State = hreq.body.s[i]
        ELSE /\ hcalls = <<>>
             /\ hpc = "done" =>
                   /\ hresp.status = StatusBadRequest
                   /\ hresp.body = <<"History arrays must have same length", "\n">>

\* a history with two times, two values and one state was refused
C20_Witness ==
    /\ PutHistory /\ hpc = "done"
    /\ Len(hreq.body.ts) = 2 /\ Len(hreq.body.v) = 2 /\ Len(hreq.body.s) = 1
    /\ hresp.status = StatusBadRequest
    /\ hcalls = <<>>

\* ------------------------------------------------------------------ C22
\* a GET on a history that was dispatched
GetHistory ==
    Dispatched /\ hreq.method = "GET" /\ LastSegment(hloc.fullPath) = histMarker

\* the query parameter is given: once, as an integer
Given(name) == Len(hreq.query[name]) = 1 /\ ParseInt(hreq.query[name][1]).ok
GivenValue(name) == ParseInt(hreq.query[name][1]).n
NotGiven(name) == hreq.query[name] = <<>>

\* ReadHistory was invoked, once and as the only operation
ReadHistoryInvoked == Len(hcalls) = 1 /\ hcalls[1].op = "ReadHistory"

\* C22: for a GET on ~hist: when begin and end are both given (and limit
\* is acceptable), ReadHistory is invoked with exactly those millisecond
\* timestamps; when both are not given it is invoked with end = the
\* current time and begin = end minus 24 hours; when one is given and the
\* other is not, the request fails with 400 and "Missing request
\* parameter: <the one not given>" and ReadHistory is not invoked.
C22_BeginEnd ==
    GetHistory =>
        /\ (Given("begin") /\ Given("end")) =>
              /\ (NotGiven("limit") \/ Given("limit")) => ReadHistoryInvoked
              /\ hcalls # <<>> =>
                    /\ hcalls[1].arg.begin = [ms |-> GivenValue("begin"), ns |-> 0]
                    /\ hcalls[1].arg.end = [ms |-> GivenValue("end"), ns |-> 0]
        /\ (NotGiven("begin") /\ NotGiven("end")) =>
              /\ (NotGiven("limit") \/ Given("limit")) => ReadHistoryInvoked
              /\ hcalls # <<>> =>
                    /\ \E now \in Clock :
                          hcalls[1].arg.end = [ms |-> now \div 1000000, ns |-> now % 1000000]
                    /\ hcalls[1].arg.begin.ms = hcalls[1].arg.end.ms - 24 * 60 * 60 * 1000
                    /\ hcalls[1].arg.begin.ns = hcalls[1].arg.end.ns
        /\ \A g \in {"begin", "end"} :
              LET m == IF g = "begin" THEN "end" ELSE "begin"
              IN (Given(g) /\ NotGiven(m)) =>
                    /\ hcalls = <<>>
                    /\ hpc = "done" =>
                          /\ hresp.status = StatusBadRequest
                          /\ hresp.body = <<"Missing request parameter: ", m, "\n">>

\* a GET without begin and end read the day that ends now
C22_Witness ==
    /\ GetHistory /\ hpc = "done"
    /\ NotGiven("begin") /\ NotGiven("end")
    /\ ReadHistoryInvoked
    /\ hcalls[1].arg.end = [ms |-> 2000, ns |-> 1]
    /\ hcalls[1].arg.begin = [ms |-> 2000 - 86400000, ns |-> 1]
    /\ hresp.status = StatusOK

\* a GET with begin and without end was refused
C22_MissingEnd ==
    /\ GetHistory /\ hpc = "done"
    /\ Given("begin") /\ NotGiven("end")
    /\ hresp.status = StatusBadRequest
    /\ hresp.body = <<"Missing request parameter: ", "end", "\n">>

\* ------------------------------------------------------------------ C23
\* C23: for a GET on ~hist the limit passed to ReadHistory never exceeds
\* HistorySizeLimit, which is 10000 when unset: a requested limit above it
\* is replaced by it and the request is served, not refused; a limit that
\* is not given becomes the maximum; a requested limit that is not above
\* the maximum is passed on unchanged.
C23_Limit ==
    LET max == IF hreq.HistorySizeLimit = 0 THEN 10000 ELSE hreq.HistorySizeLimit
    IN GetHistory =>
        /\ hcalls # <<>> =>
              /\ hcalls[1].arg.limit <= max
              /\ NotGiven("limit") => hcalls[1].arg.limit = max
              /\ (Given("limit") /\ GivenValue("limit") > max) => hcalls[1].arg.limit = max
              /\ (Given("limit") /\ GivenValue("limit") <= max) =>
                    hcalls[1].arg.limit = GivenValue("limit")
        /\ (Given("limit") /\ GivenValue("limit") > max
                /\ Given("begin") /\ Given("end")) =>
              /\ ReadHistoryInvoked
              /\ (hpc = "done" /\ hloc.err = NoError) => hresp.status = StatusOK

\* 12000 entries were asked of a handler with the default limit, and
\* 10000 were asked of the Service
C23_Witness ==
    /\ GetHistory /\ hpc = "done"
    /\ hreq.HistorySizeLimit = 0
    /\ Given("limit") /\ GivenValue("limit") = 12000
    /\ ReadHistoryInvoked
    /\ hcalls[1].arg.limit = 10000
    /\ hresp.status = StatusOK

\* ------------------------------------------------------------------ C24
\* a PUT on an object path was answered: WriteProperties was invoked and
\* returned hloc.created and hloc.err
PutObject ==
    /\ Dispatched /\ hpc = "done"
    /\ hreq.method = "PUT"
    /\ hcalls # <<>> /\ hcalls[1].op = "WriteProperties"

\* C24: a PUT on an object path answers 201 exactly when WriteProperties
\* returned created = true without error and 200 exactly when it returned
\* created = false without error, both with an empty body; when it returns
\* an error the status is the code of the error, whatever created is.
C24_PutProperties ==
    PutObject =>
        /\ hresp.status = 201 <=> (hloc.created /\ hloc.err = NoError)
        /\ hresp.status = 200 <=> (~hloc.created /\ hloc.err = NoError)
        /\ hloc.err = NoError => hresp.body = <<>>
        /\ hloc.err # NoError => hresp.status = hloc.err.code

\* WriteProperties returned created = true together with an error, and
\* the code of the error was sent
C24_Witness ==
    /\ PutObject
    /\ hloc.created
    /\ hloc.err # NoError
    /\ hresp.status = StatusForbidden

\* ------------------------------------------------------------------ C25
\* a GET on an object path was answered with the properties: hloc.props
\* is what ReadProperties returned
GetObject ==
    /\ Dispatched /\ hpc = "done"
    /\ hreq.method = "GET"
    /\ hcalls # <<>> /\ hcalls[1].op = "ReadProperties"
    /\ hresp.status = StatusOK

\* C25: a GET on an object path returns the attributes, and a "~links" key
\* exactly when the link list is not empty; the links are in the order
\* ReadProperties returned them; the href of a link with an absolute
\* target is URLPrefix + target and a relative target is sent as it is;
\* title is left out exactly when it is empty.
C25_GetProperties ==
    GetObject =>
        LET sent == hresp.body[1]
            links == hloc.props.links
        IN /\ Len(hresp.body) = 1
           /\ sent.attr = hloc.props.attr
           /\ ("links" \in DOMAIN sent) <=> links # <<>>
           /\ links # <<>> =>
                 /\ Len(sent.links) = Len(links)
                 /\ \A i \in 1..Len(links) :
                       /\ sent.links[i].rel = links[i].Role
                       /\ sent.links[i].href =
                             (IF links[i].Target[1] = "/" THEN hreq.URLPrefix \o links[i].Target
                              ELSE links[i].Target)
                       /\ ("title" \in DOMAIN sent.links[i]) <=> links[i].Title # ""
                       /\ links[i].Title # "" => sent.links[i].title = links[i].Title

\* under the prefix /veap a link to .. with a title and a link to /c
\* without one were sent, in this order
C25_Witness ==
    /\ GetObject
    /\ hreq.URLPrefix = <<"/", "veap">>
    /\ Len(hloc.props.links) = 2
    /\ hresp.body[1].links =
          <<[rel |-> "itf", href |-> <<"..">>, title |-> "Itf"],
            [rel |-> "dp", href |-> <<"/", "veap", "/", "c">>]>>

\* ------------------------------------------------------------------ C29
\* a call of WriteProperties
WritePropertiesStep == last.op = "None" /\ last'.op = "WriteProperties"

\* C29: WriteProperties never changes the stored links of an object: after
\* any call, an update or a creation, successful or failed, every object
\* that existed before the call has the links it had before.
C29_LinksKept ==
    [][WritePropertiesStep => \A o \in DOMAIN lobj : Constructed(o) => lobj'[o] = lobj[o]]_vars

\* WriteProperties has succeeded in a tree with an object that has a
\* stored link
C29_Witness ==
    /\ last.op = "WriteProperties"
    /\ last.code = 0
    /\ \E o \in DOMAIN lobj : Constructed(o) /\ lobj[o] # {}

\* ====================================================== pure functions
\* State and its three bands
StateGood == 0
StateUncertain == 100
StateBad == 200

Good(s) == s >= StateGood /\ s < StateUncertain

\* an Uncertain that includes StateBad (fault variant)
Uncertain_Inclusive(s) == s >= StateUncertain /\ s <= StateBad

Uncertain(s) == s >= StateUncertain /\ s < StateBad

Bad(s) == s >= StateBad \/ s < StateGood

\* the states the bands are applied to
StateInputs == -3 .. 203

\* the entries of the time series: times in nanoseconds, before and after
\* the epoch, on a whole millisecond and between two
HistTimes == {-1500000, -1000000, 0, 1, 1000000, 1999999, 2000000}
HistPVs == {[Time |-> t, Value |-> v, State |-> st] : t \in HistTimes, v \in {"3", "4"}, st \in {5, 6}}
HistInputs == UNION {[1..n -> HistPVs] : n \in 0..MaxHist}

\* the PVs sent from the Client to the handler (WritePV) and from the
\* handler to the Client (ReadPV): times before and after the epoch, on a
\* whole millisecond and between two, and within a millisecond of the epoch
PVTimes == {-1500000, -1000000, -999999, -1, 0, 1, 999999, 1000000, 1234567, 2000000}
PVInputs ==
    {[Time |-> t, Value |-> v, State |-> st] : t \in PVTimes, v \in {"123.456", "nil"},
                                               st \in {0, 42, 200}}

PureInputs ==
    {[fn |-> "hist", hist |-> h] : h \in HistInputs} \cup
    {[fn |-> "State", s |-> st] : st \in StateInputs} \cup
    {[fn |-> "pv", op |-> op, pv |-> pv, now |-> now] :
        op \in {"WritePV", "ReadPV"}, pv \in PVInputs, now \in Clock}

InitPure ==
    /\ InitTree
    /\ ConcAtRest
    /\ HandlerAtRest
    /\ StatsAtRest
    /\ ClientAtRest
    /\ DaemonAtRest
    /\ PoolAtRest
    /\ DebounceAtRest
    /\ fin \in PureInputs
    /\ fout = [fn |-> "None"]

PureFrame ==
    UNCHANGED <<vars, concVars, httpVars, statVars, clientVars, daemonVars, poolVars, debVars>>

\* histToWire and then wireToHist on the time series
HistRoundTrip ==
    /\ fin.fn = "hist"
    /\ fout.fn = "None"
    /\ fout' = [fn |-> "hist", w |-> histToWire(fin.hist),
                back |-> wireToHist(histToWire(fin.hist))]
    /\ UNCHANGED fin
    /\ PureFrame

\* Good, Uncertain and Bad of the state
StateBands ==
    /\ fin.fn = "State"
    /\ fout.fn = "None"
    /\ fout' = [fn |-> "State", Good |-> Good(fin.s), Uncertain |-> Uncertain(fin.s),
                Bad |-> Bad(fin.s)]
    /\ UNCHANGED fin
    /\ PureFrame

\* json.Marshal of a wirePV: the three fields are always written
MarshalPV(w) ==
    [kind |-> "pv", has |-> {"ts", "v", "s"}, ts |-> w.Time, v |-> w.Value, s |-> w.State]

\* a PV on its way through the wire: the sender (Client.WritePV, or the
\* handler for Client.ReadPV) encodes pvToWire(pv), the receiver decodes
\* the body and applies wireToPV at its time now
PVRoundTrip ==
    /\ fin.fn = "pv"
    /\ fout.fn = "None"
    /\ LET b == MarshalPV(pvToWire(fin.pv))
           u == UnmarshalPV(b)
       IN fout' = [fn |-> "pv", w |-> u.w, ok |-> u.ok, back |-> wireToPV(u.w, fin.now)]
    /\ UNCHANGED fin
    /\ PureFrame

NextPure ==
    \/ HistRoundTrip
    \/ StateBands
    \/ PVRoundTrip

SpecPure == InitPure /\ [][NextPure]_allVars

\* ------------------------------------------------------------------ C21
\* a time on a whole millisecond
Aligned(t) == t % NanosPerMilli = 0

\* C21: writing a time series through the history wire format and reading
\* it back (histToWire, then wireToHist) gives no error and as many
\* entries, each with the value and the state of the entry at the same
\* place of the original; an entry whose time is on a whole millisecond
\* comes back with the same time, so a series of such entries comes back
\* unchanged.
C21_HistRoundTrip ==
    fout.fn = "hist" =>
        /\ fout.back.err = NoError
        /\ Len(fout.back.hist) = Len(fin.hist)
        /\ \A i \in 1..Len(fin.hist) :
              /\ fout.back.hist[i].Value = fin.hist[i].Value
              /\ fout.back.hist[i].State = fin.hist[i].State
              /\ Aligned(fin.hist[i].Time) => fout.back.hist[i].Time = fin.hist[i].Time
        /\ (\A i \in 1..Len(fin.hist) : Aligned(fin.hist[i].Time)) => fout.back.hist = fin.hist

\* the series of the test came back: 1 ms with 3 and 5, then 2 ms with 4
\* and 6
C21_Witness ==
    /\ fout.fn = "hist"
    /\ fin.hist = <<[Time |-> 1000000, Value |-> "3", State |-> 5],
                    [Time |-> 2000000, Value |-> "4", State |-> 6]>>
    /\ fout.w.Times = <<1, 2>>
    /\ fout.back.hist = fin.hist

\* ------------------------------------------------------------------ C39
\* the time truncated to whole milliseconds
Truncated(t) == GoDiv(t, 1000000) * 1000000

\* C39 as stated: for every PV, the PV that arrives has the same Value and
\* State and the original time truncated to whole milliseconds, also when
\* the time lies within the first millisecond of the epoch.
C39_EveryTimestamp ==
    fout.fn = "pv" =>
        /\ fout.ok
        /\ fout.back.Value = fin.pv.Value
        /\ fout.back.State = fin.pv.State
        /\ fout.back.Time = Truncated(fin.pv.Time)

\* C39, amended: the PV that arrives has the same Value and State; its
\* time is the original time truncated to whole milliseconds when that is
\* not the epoch itself, and the time of the receiver's clock when the
\* original time lies less than a millisecond from the epoch (wire ts 0).
C39_PVRoundTrip ==
    fout.fn = "pv" =>
        /\ fout.ok
        /\ fout.back.Value = fin.pv.Value
        /\ fout.back.State = fin.pv.State
        /\ fout.w.Time = GoDiv(fin.pv.Time, 1000000)
        /\ fout.back.Time = IF Truncated(fin.pv.Time) = 0 THEN fin.now
                            ELSE Truncated(fin.pv.Time)

\* a PV with the time 1.234567 ms has arrived with the time 1 ms
C39_Witness ==
    /\ fout.fn = "pv"
    /\ fin.pv.Time = 1234567
    /\ fout.w.Time = 1
    /\ fout.back = [Time |-> 1000000, Value |-> fin.pv.Value, State |-> fin.pv.State]

\* a PV with a time in the first millisecond of the epoch has arrived with
\* the time of the receiver
C39_EpochReplaced ==
    /\ fout.fn = "pv"
    /\ fin.pv.Time = 999999
    /\ fout.w.Time = 0
    /\ fout.back.Time = fin.now

\* ------------------------------------------------------------------ C28
\* C28: for every state exactly one of Good, Uncertain and Bad holds; Good
\* holds from 0 up to 99, Uncertain from 100 up to 199, and Bad from 200 on
\* and below 0.
C28_StateBands ==
    fout.fn = "State" =>
        /\ Cardinality({b \in {"Good", "Uncertain", "Bad"} : fout[b]}) = 1
        /\ fout.Good <=> (0 <= fin.s /\ fin.s < 100)
        /\ fout.Uncertain <=> (100 <= fin.s /\ fin.s < 200)
        /\ fout.Bad <=> (fin.s >= 200 \/ fin.s < 0)

\* the state 200 was found bad and nothing else
C28_Witness ==
    /\ fout.fn = "State"
    /\ fin.s = 200
    /\ fout.Bad /\ ~fout.Good /\ ~fout.Uncertain

\* ============================================== concurrent requests
\* the handler serves each request in a goroutine of its own (net/http);
\* the goroutines share Handler.Stats, which they change with
\* atomic.AddUint64 only.  A step of a goroutine is one atomic addition
\* together with the local work that follows it.
StatFrame ==
    UNCHANGED <<vars, concVars, httpVars, pureVars, clientVars, daemonVars, poolVars, debVars>>

\* an addition that is lost (fault variant)
AddUint64_Lost(v, delta) == v

\* atomic.AddUint64; the counters of the model stay far below 2^64
AddUint64(v, delta) == v + delta

\* the lengths of the request bodies, of the error messages and of the
\* response bodies
RequestLengths == {0, 3}
MessageLengths == {2}
ResponseLengths == {0, 4}

\* a peer sends a request and net/http starts ServeHTTP in goroutine g
ServeStart(g) ==
    /\ spc[g] = "idle"
    /\ served.requests < MaxRequests
    /\ served' = [served EXCEPT !.requests = @ + 1,
                                !.overlap = @ \/ \E o \in Procs : spc[o] # "idle"]
    /\ spc' = [spc EXCEPT ![g] = "count"]
    /\ UNCHANGED <<sstats, sloc>>
    /\ StatFrame

\* ServeHTTP: counts the request and checks the URL prefix
CountRequest(g, prefixOk) ==
    /\ spc[g] = "count"
    /\ sstats' = [sstats EXCEPT !.Requests = AddUint64(@, 1)]
    /\ \E m \in MessageLengths :
          /\ sloc' = [sloc EXCEPT ![g].msg = IF prefixOk THEN 0 ELSE m]
          /\ spc' = [spc EXCEPT ![g] = IF prefixOk THEN "read" ELSE "error"]
    /\ UNCHANGED served
    /\ StatFrame

\* ServeHTTP: reads the body, which fails when it is too large
ReadAll(g, len, ok) ==
    /\ spc[g] = "read"
    /\ \E m \in MessageLengths :
          /\ sloc' = [sloc EXCEPT ![g].reqBytes = IF ok THEN len ELSE 0,
                                  ![g].msg = IF ok THEN 0 ELSE m]
          /\ spc' = [spc EXCEPT ![g] = IF ok THEN "bytes" ELSE "error"]
    /\ served' = [served EXCEPT !.bytes = IF ok THEN @ + len ELSE @]
    /\ UNCHANGED sstats
    /\ StatFrame

\* ServeHTTP: counts the bytes of the request and dispatches it; failed
\* tells whether the dispatch or the Service gave an error
CountRequestBytes(g, failed, len) ==
    /\ spc[g] = "bytes"
    /\ sstats' = [sstats EXCEPT !.RequestBytes = AddUint64(@, sloc[g].reqBytes)]
    /\ \E m \in MessageLengths :
          /\ sloc' = [sloc EXCEPT ![g].msg = IF failed THEN m ELSE 0,
                                  ![g].respBytes = IF failed THEN 0 ELSE len]
          /\ spc' = [spc EXCEPT ![g] = IF failed THEN "error" ELSE "response"]
    /\ UNCHANGED served
    /\ StatFrame

\* errorResponse: counts the error response
CountError(g) ==
    /\ spc[g] = "error"
    /\ sstats' = [sstats EXCEPT !.ErrorResponses = AddUint64(@, 1)]
    /\ spc' = [spc EXCEPT ![g] = "errorBytes"]
    /\ UNCHANGED <<sloc, served>>
    /\ StatFrame

\* errorResponse: counts the bytes of the message and sends the error
SendError(g) ==
    /\ spc[g] = "errorBytes"
    /\ sstats' = [sstats EXCEPT !.ResponseBytes = AddUint64(@, sloc[g].msg)]
    /\ served' = [served EXCEPT !.errors = @ + 1]
    /\ spc' = [spc EXCEPT ![g] = "idle"]
    /\ sloc' = [sloc EXCEPT ![g] = NoServeLocals]
    /\ StatFrame

\* ServeHTTP: counts the bytes of the response and sends it
SendResponse(g) ==
    /\ spc[g] = "response"
    /\ sstats' = [sstats EXCEPT !.ResponseBytes = AddUint64(@, sloc[g].respBytes)]
    /\ served' = [served EXCEPT !.ok = @ + 1]
    /\ spc' = [spc EXCEPT ![g] = "idle"]
    /\ sloc' = [sloc EXCEPT ![g] = NoServeLocals]
    /\ StatFrame

InitStats ==
    /\ InitTree
    /\ ConcAtRest
    /\ HandlerAtRest
    /\ ExtAtRest

NextStats ==
    \E g \in Procs :
        \/ ServeStart(g)
        \/ \E prefixOk \in BOOLEAN : CountRequest(g, prefixOk)
        \/ \E len \in RequestLengths : \E ok \in BOOLEAN : ReadAll(g, len, ok)
        \/ \E failed \in BOOLEAN : \E len \in ResponseLengths :
              CountRequestBytes(g, failed, len)
        \/ CountError(g)
        \/ SendError(g)
        \/ SendResponse(g)

SpecStats == InitStats /\ [][NextStats]_allVars

\* ------------------------------------------------------------------ C26
\* no request is being handled
Quiescent == \A g \in Procs : spc[g] = "idle"

\* the counters agree with what the peers sent and received
CountersExact ==
    /\ sstats.Requests = served.requests
    /\ sstats.ErrorResponses = served.errors
    /\ sstats.RequestBytes = served.bytes

\* no counter gets smaller
CountersGrow ==
    /\ sstats'.Requests >= sstats.Requests
    /\ sstats'.RequestBytes >= sstats.RequestBytes
    /\ sstats'.ResponseBytes >= sstats.ResponseBytes
    /\ sstats'.ErrorResponses >= sstats.ErrorResponses

\* C26: whenever all the requests handled so far, concurrently or not,
\* have completed, Stats.Requests is the number of requests received,
\* Stats.ErrorResponses the number of requests answered with an error
\* response and Stats.RequestBytes the sum of the lengths of the bodies
\* that were read; in every state ErrorResponses <= Requests, and no step
\* makes a counter smaller.
C26_Stats ==
    /\ [](Quiescent => CountersExact)
    /\ [](sstats.ErrorResponses <= sstats.Requests)
    /\ [][CountersGrow]_allVars

\* three requests, two of them handled at the same time, have completed:
\* two error responses and three bytes read
C26_Witness ==
    /\ Quiescent
    /\ served.overlap
    /\ sstats.Requests = 3
    /\ sstats.ErrorResponses = 2
    /\ sstats.RequestBytes = 3

\* ============================================================== Client
\* one call of an operation of the Client: the request is encoded and
\* sent, the transport answers with an error or with the response of the
\* server (its status, the length of its body and whether the body is the
\* JSON the operation expects), and the operation returns.
ClientFrame ==
    UNCHANGED <<vars, concVars, httpVars, pureVars, statVars, daemonVars, poolVars, debVars>>

defaultResponseSizeLimit == 1048576

ClientOps == {"ReadPV", "WritePV", "ReadHistory", "WriteHistory", "ReadProperties",
              "WriteProperties", "Delete"}

\* the operations that read the body of a response with status 200
ClientReads == {"ReadPV", "ReadHistory", "ReadProperties"}

\* the operations that encode a request body
ClientEncodes == {"WritePV", "WriteHistory", "WriteProperties"}

\* Client.Init: the limit is 1 MB when it is not set
ResponseSizeLimit(c) ==
    IF c.ResponseSizeLimit = 0 THEN defaultResponseSizeLimit ELSE c.ResponseSizeLimit

\* only 200 is a success (fault variant)
IsSuccess_OKOnly(op, code) == code = StatusOK

\* the status an operation takes as success: 200, and 201 as well for
\* WriteProperties
IsSuccess(op, code) == code = StatusOK \/ (op = "WriteProperties" /\ code = StatusCreated)

\* Client.readLimited: fails when the body has more bytes than the limit
Exceeded(len, limit) == len >= limit + 1

\* the statuses a server answers with
ServerStatuses ==
    {StatusOK, StatusCreated, StatusBadRequest, StatusNotFound, StatusInternalServerError,
     StatusClientError}

\* what the transport gives for a call with limit l
Answers(l) ==
    {[err |-> TRUE, StatusCode |-> 0, len |-> 0, valid |-> FALSE]} \cup
    {[err |-> FALSE, StatusCode |-> c, len |-> n, valid |-> v] :
        c \in ServerStatuses, n \in {0, l, l + 1}, v \in BOOLEAN}

\* the caller calls operation op of a Client with ResponseSizeLimit limit
ClientCall(op, limit, encodable) ==
    /\ cpc = "idle"
    /\ ccall' = [op |-> op, ResponseSizeLimit |-> limit, encodable |-> encodable]
    /\ cpc' = "called"
    /\ UNCHANGED <<cresp, cret>>
    /\ ClientFrame

\* the operation encodes its request with json.Marshal and sends it
ClientSend ==
    /\ cpc = "called"
    /\ IF ccall.op \in ClientEncodes /\ ~ccall.encodable
       THEN /\ cret' = [cret EXCEPT !.err =
                           NewErrorf(IF ccall.op = "WriteProperties" THEN StatusBadRequest
                                     ELSE StatusClientError,
                                     <<"Conversion to JSON failed: ">>)]
            /\ cpc' = "done"
       ELSE /\ cpc' = "sent"
            /\ UNCHANGED cret
    /\ UNCHANGED <<ccall, cresp>>
    /\ ClientFrame

\* c.Client.Get or c.Client.Do returns
Transport(answer) ==
    /\ cpc = "sent"
    /\ cresp' = answer
    /\ cpc' = "answered"
    /\ UNCHANGED <<ccall, cret>>
    /\ ClientFrame

\* what a reading operation returns for the response
ReadResult(c, resp) ==
    IF resp.err
    THEN NewErrorf(StatusClientError, <<"HTTP-GET on ", "url", " failed: ", "err">>)
    ELSE IF Exceeded(resp.len, ResponseSizeLimit(c))
    THEN NewErrorf(StatusClientError, <<"Response size limit of ", "n", " bytes exceeded">>)
    ELSE IF resp.StatusCode # StatusOK
    THEN NewErrorf(resp.StatusCode, <<"Received HTTP status: ", "code", " (", "body", ")">>)
    ELSE IF ~resp.valid \/ resp.len = 0
    THEN NewErrorf(StatusClientError, <<"Conversion of JSON failed: ">>)
    ELSE NoError

\* what a writing operation or Delete returns for the response
WriteResult(c, resp) ==
    IF resp.err
    THEN NewErrorf(StatusClientError, <<"HTTP-PUT request failed: ", "err">>)
    ELSE IF ~IsSuccess(c.op, resp.StatusCode)
    THEN NewErrorf(resp.StatusCode, <<"Received HTTP status: ", "code", " (", "body", ")">>)
    ELSE NoError

\* the operation returns
ClientReturn ==
    /\ cpc = "answered"
    /\ LET err == IF ccall.op \in ClientReads THEN ReadResult(ccall, cresp)
                  ELSE WriteResult(ccall, cresp)
       IN cret' = [err |-> err,
                   created |-> ccall.op = "WriteProperties" /\ err = NoError
                               /\ cresp.StatusCode = StatusCreated]
    /\ cpc' = "done"
    /\ UNCHANGED <<ccall, cresp>>
    /\ ClientFrame

InitClient ==
    /\ InitTree
    /\ ConcAtRest
    /\ HandlerAtRest
    /\ ExtAtRest

ResponseSizeLimits == {0, 10}

NextClient ==
    \/ \E op \in ClientOps : \E limit \in ResponseSizeLimits : \E encodable \in BOOLEAN :
         ClientCall(op, limit, encodable)
    \/ ClientSend
    \/ \E answer \in Answers(ResponseSizeLimit(ccall)) : Transport(answer)
    \/ ClientReturn

SpecClient == InitClient /\ [][NextClient]_allVars

\* ------------------------------------------------------------------ C27
\* the operation has returned after the server answered
Answered == cpc = "done" /\ cresp # NoAnswer /\ ~cresp.err

\* the operation has returned after the transport failed
TransportFailed == cpc = "done" /\ cresp # NoAnswer /\ cresp.err

\* the status of the response is a success for the operation: 200, and
\* 201 for WriteProperties
SuccessStatus ==
    cresp.StatusCode = 200 \/ (ccall.op = "WriteProperties" /\ cresp.StatusCode = 201)

\* the operation returned an Error with this code
ReturnedCode(code) == cret.err.kind = "Error" /\ cret.err.code = code

TooLong == cresp.len > (IF ccall.ResponseSizeLimit = 0 THEN 1024 * 1024 ELSE ccall.ResponseSizeLimit)

\* C27 as stated: every operation returns an Error with the status of the
\* response as its code whenever the status is not a success for the
\* operation, WriteProperties reports created exactly for 201, and a
\* transport failure, a response longer than ResponseSizeLimit and a
\* response that cannot be decoded give code 900.
C27_StatusToCode ==
    /\ (Answered /\ ~SuccessStatus) => ReturnedCode(cresp.StatusCode)
    /\ (Answered /\ SuccessStatus /\ cret.err = NoError /\ ccall.op = "WriteProperties") =>
          (cret.created <=> cresp.StatusCode = 201)
    /\ TransportFailed => ReturnedCode(900)
    /\ (Answered /\ TooLong) => ReturnedCode(900)
    /\ (Answered /\ SuccessStatus /\ ccall.op \in ClientReads /\ ~cresp.valid) => ReturnedCode(900)

\* C27, amended: a transport failure gives code 900 in every operation.
\* ReadPV, ReadHistory and ReadProperties give code 900 for a response
\* longer than ResponseSizeLimit whatever its status, otherwise the status
\* as the code when it is not 200, otherwise 900 when the body cannot be
\* decoded.  WritePV, WriteHistory, WriteProperties and Delete do not look
\* at the length: they give the status as the code when it is not a
\* success (200, and 201 for WriteProperties) and no error otherwise, and
\* WriteProperties reports created exactly for 201.
C27_ClientErrors ==
    /\ TransportFailed => ReturnedCode(900)
    /\ (Answered /\ ccall.op \in ClientReads) =>
          IF TooLong THEN ReturnedCode(900)
          ELSE IF cresp.StatusCode # 200 THEN ReturnedCode(cresp.StatusCode)
          ELSE IF ~cresp.valid \/ cresp.len = 0 THEN ReturnedCode(900)
          ELSE cret.err = NoError
    /\ (Answered /\ ccall.op \notin ClientReads) =>
          IF ~SuccessStatus THEN ReturnedCode(cresp.StatusCode)
          ELSE /\ cret.err = NoError
               /\ cret.created <=> (ccall.op = "WriteProperties" /\ cresp.StatusCode = 201)

\* WriteProperties was answered 201 and reported the creation
C27_Witness ==
    /\ Answered
    /\ ccall.op = "WriteProperties"
    /\ cresp.StatusCode = 201
    /\ cret.err = NoError /\ cret.created

\* ReadPV was answered 404 with a body longer than the limit and returned
\* the code 900
C27_MaskedStatus ==
    /\ Answered
    /\ ccall.op = "ReadPV"
    /\ cresp.StatusCode = 404 /\ TooLong
    /\ ReturnedCode(900)

\* ============================================================== DaemonFunc
\* the caller of DaemonFunc (main) and the goroutine DaemonFunc starts
\* (daemon).  The daemon function f is the one of TestDaemonFunc: it
\* appends 1, sleeps on the context, appends 2 and returns when Sleep
\* returns ErrCanceled, and appends 3 when its sleeps are over; df.sleeps
\* is the number of sleeps f still makes and df.d their duration in
\* seconds.  With df.signal, f then sends on the
\* channel w and the caller receives from w before it calls the cancel
\* function.  Time is not measured: a running
\* timer may fire at any moment, or never.
DaemonFrame ==
    UNCHANGED <<vars, concVars, httpVars, pureVars, statVars, clientVars, poolVars, debVars>>

\* a receive on the channel does not wait for a sender (fault variant)
CanReceive_NoWait(n) == TRUE

\* a receive on a buffered channel holding n values can proceed
CanReceive(n) == n > 0

\* DaemonFunc(f): makes term and ctx.done, starts the goroutine and
\* returns the cancel function
DaemonFunc(sleeps, d, signal) ==
    /\ dpc.main = "idle"
    /\ dpc' = [main |-> IF signal THEN "recvw" ELSE "running", daemon |-> "f"]
    /\ dctx' = [done |-> "open"]
    /\ dterm' = 0
    /\ df' = [sleeps |-> sleeps, d |-> d, signal |-> signal]
    /\ UNCHANGED <<dtimer, dlog>>
    /\ DaemonFrame

\* f starts: l = append(l, 1)
FBegin ==
    /\ dpc.daemon = "f"
    /\ dlog' = Append(dlog, 1)
    /\ dpc' = [dpc EXCEPT !.daemon = "loop"]
    /\ UNCHANGED <<dctx, dterm, dtimer, df>>
    /\ DaemonFrame

\* f calls ctx.Sleep(d): t := time.NewTimer(d); pre keeps what c.done was
\* when Sleep was called
NewTimer ==
    /\ dpc.daemon = "loop"
    /\ df.sleeps > 0
    /\ df' = [df EXCEPT !.sleeps = @ - 1]
    /\ dtimer' = [state |-> "running", C |-> 0, d |-> df.d, pre |-> dctx.done]
    /\ dpc' = [dpc EXCEPT !.daemon = "select"]
    /\ UNCHANGED <<dctx, dterm, dlog>>
    /\ DaemonFrame

\* the select of Sleep looks at t.C and c.done: a ready case is taken (any
\* of them when both are ready), and the goroutine parks when none is
Select ==
    /\ dpc.daemon = "select"
    /\ \/ /\ dtimer.C = 1
          /\ dtimer' = [dtimer EXCEPT !.C = 0]
          /\ dpc' = [dpc EXCEPT !.daemon = "timeup"]
       \/ /\ dctx.done = "closed"
          /\ dpc' = [dpc EXCEPT !.daemon = "canceled"]
          /\ UNCHANGED dtimer
       \/ /\ dtimer.C = 0 /\ dctx.done = "open"
          /\ dpc' = [dpc EXCEPT !.daemon = "parked"]
          /\ UNCHANGED dtimer
    /\ UNCHANGED <<dctx, dterm, df, dlog>>
    /\ DaemonFrame

\* the runtime fires the timer: the value goes to the goroutine parked in
\* the select, or into the buffer of t.C
TimerFire ==
    /\ dtimer.state = "running"
    /\ IF dpc.daemon = "parked"
       THEN /\ dtimer' = [dtimer EXCEPT !.state = "fired"]
            /\ dpc' = [dpc EXCEPT !.daemon = "timeup"]
       ELSE /\ dtimer' = [dtimer EXCEPT !.state = "fired", !.C = 1]
            /\ UNCHANGED dpc
    /\ UNCHANGED <<dctx, dterm, df, dlog>>
    /\ DaemonFrame

\* case <-t.C: Sleep returns nil and f goes on
SleepNil ==
    /\ dpc.daemon = "timeup"
    /\ dpc' = [dpc EXCEPT !.daemon = "loop"]
    /\ UNCHANGED <<dctx, dterm, dtimer, df, dlog>>
    /\ DaemonFrame

\* case <-c.done: if !t.Stop() { <-t.C }; Sleep returns ErrCanceled
SleepCanceled ==
    /\ dpc.daemon = "canceled"
    /\ IF dtimer.state = "running"
       THEN dtimer' = [dtimer EXCEPT !.state = "stopped"]
       ELSE /\ CanReceive(dtimer.C)
            /\ dtimer' = [dtimer EXCEPT !.C = 0]
    /\ dpc' = [dpc EXCEPT !.daemon = "errcanceled"]
    /\ UNCHANGED <<dctx, dterm, df, dlog>>
    /\ DaemonFrame

\* f after Sleep returned ErrCanceled: l = append(l, 2); return
FCanceled ==
    /\ dpc.daemon = "errcanceled"
    /\ dlog' = Append(dlog, 2)
    /\ dpc' = [dpc EXCEPT !.daemon = "defer"]
    /\ UNCHANGED <<dctx, dterm, dtimer, df>>
    /\ DaemonFrame

\* f after its last sleep: l = append(l, 3), and f returns or signals
FComplete ==
    /\ dpc.daemon = "loop"
    /\ df.sleeps = 0
    /\ dlog' = Append(dlog, 3)
    /\ dpc' = [dpc EXCEPT !.daemon = IF df.signal THEN "sendw" ELSE "defer"]
    /\ UNCHANGED <<dctx, dterm, dtimer, df>>
    /\ DaemonFrame

\* w <- struct{}{} in f meets <-w in the caller, and f returns
SignalW ==
    /\ dpc.daemon = "sendw"
    /\ dpc.main = "recvw"
    /\ dpc' = [main |-> "running", daemon |-> "defer"]
    /\ UNCHANGED <<dctx, dterm, dtimer, df, dlog>>
    /\ DaemonFrame

\* the deferred term <- struct{}{}: term has room for one value
DeferSend ==
    /\ dpc.daemon = "defer"
    /\ dterm < 1
    /\ dterm' = dterm + 1
    /\ dpc' = [dpc EXCEPT !.daemon = "returned"]
    /\ UNCHANGED <<dctx, dtimer, df, dlog>>
    /\ DaemonFrame

\* the cancel function: close(ctx.done); a goroutine parked in the select
\* of Sleep is woken with the case of c.done
CloseDone ==
    /\ dpc.main = "running"
    /\ dctx' = [done |-> "closed"]
    /\ dpc' = [main |-> "waiting",
               daemon |-> IF dpc.daemon = "parked" THEN "canceled" ELSE dpc.daemon]
    /\ UNCHANGED <<dterm, dtimer, df, dlog>>
    /\ DaemonFrame

\* the cancel function: <-term, and it returns
ReceiveTerm ==
    /\ dpc.main = "waiting"
    /\ CanReceive(dterm)
    /\ dterm' = dterm - 1
    /\ dpc' = [dpc EXCEPT !.main = "returned"]
    /\ UNCHANGED <<dctx, dtimer, df, dlog>>
    /\ DaemonFrame

\* the durations f sleeps for, in seconds
Durations == {0, 1}

InitDaemon ==
    /\ InitTree
    /\ ConcAtRest
    /\ HandlerAtRest
    /\ ExtAtRest

\* the steps of the goroutine
DaemonSteps ==
    \/ FBegin
    \/ NewTimer
    \/ Select
    \/ SleepNil
    \/ SleepCanceled
    \/ FCanceled
    \/ FComplete
    \/ SignalW
    \/ DeferSend

NextDaemon ==
    \/ \E sleeps \in 0 .. MaxSleeps : \E d \in Durations : \E signal \in BOOLEAN :
         DaemonFunc(sleeps, d, signal)
    \/ DaemonSteps
    \/ TimerFire
    \/ CloseDone
    \/ ReceiveTerm

SpecDaemon == InitDaemon /\ [][NextDaemon]_allVars

\* the scheduler runs a goroutine that can run, and a call of the cancel
\* function that can go on does; nothing makes the caller call the cancel
\* function, and nothing makes a timer fire
FairSpecDaemon ==
    /\ SpecDaemon
    /\ WF_allVars(DaemonSteps)
    /\ WF_allVars(ReceiveTerm)

\* ------------------------------------------------------------------ C30
\* the cancel function has returned
CancelReturned == dpc.main = "returned"

\* f has returned
FReturned == dpc.daemon \in {"defer", "returned"}

\* the step calls the cancel function while Sleep is blocked in its select
CancelDuringSleep == dpc.main = "running" /\ dpc'.main = "waiting" /\ dpc.daemon = "parked"

\* f took its cancel branch: its last entry is 2
TookCancelBranch == dlog # <<>> /\ dlog[Len(dlog)] = 2

\* C30: the cancel function closes Done and returns only after f has
\* returned; called while a Sleep of f is blocked, it makes that Sleep
\* return ErrCanceled, f takes its cancel branch and the call returns; and
\* called after f has completed, it finds the value in term and returns
\* without waiting.
C30_Cancel ==
    /\ [](dpc.main \in {"waiting", "returned"} => dctx.done = "closed")
    /\ [](CancelReturned => dpc.daemon = "returned")
    /\ [](dpc.daemon = "returned" => (CancelReturned \/ CanReceive(dterm)))
    /\ [][CancelDuringSleep => dpc'.daemon = "canceled"]_allVars
    /\ (dpc.daemon = "canceled") ~> (FReturned /\ TookCancelBranch)
    /\ (dpc.main = "waiting") ~> CancelReturned

\* the cancel function was called during a Sleep and has returned after f
\* took its cancel branch
C30_Witness ==
    /\ CancelReturned
    /\ dlog = <<1, 2>>
    /\ dtimer.state = "stopped"

\* the cancel function was called after f had completed
C30_Completed ==
    /\ dpc.main = "waiting"
    /\ dpc.daemon = "returned"
    /\ dlog = <<1, 3>>

\* ------------------------------------------------------------------ C33
\* Sleep has returned nil, or ErrCanceled
SleepReturnedNil == dpc.daemon = "timeup"
SleepReturnedCanceled == dpc.daemon \in {"canceled", "errcanceled"}

\* C33: Sleep(d) returns nil only when d has elapsed (the timer has fired)
\* and the context was not canceled when Sleep was called; a Sleep on a
\* context that was canceled before the call returns ErrCanceled, for
\* every d >= 0; and a cancellation while Sleep is blocked makes it return
\* ErrCanceled.
C33_Sleep ==
    /\ [](SleepReturnedNil => dtimer.state = "fired")
    /\ [](SleepReturnedNil => dtimer.pre = "open")
    /\ [](SleepReturnedCanceled => dctx.done = "closed")
    /\ [][CancelDuringSleep => dpc'.daemon = "canceled"]_allVars

\* ============================================================== DaemonPool
\* the caller of Run and Close (main) and the goroutines Run starts.  A
\* daemon function may start another one with Run, then it sleeps on the
\* context of the pool (or not) and returns, as the functions of
\* TestDaemonPool do.
PoolFrame ==
    UNCHANGED <<vars, concVars, httpVars, pureVars, statVars, clientVars, daemonVars,
                debVars>>

\* the goroutine the next Run starts
FreeDaemon(g) == ppc.f[g] = "none" /\ \A h \in Daemons : h < g => ppc.f[h] # "none"

\* sync.WaitGroup.Wait returns at once (fault variant)
WaitReady_Always(n) == TRUE

\* sync.WaitGroup.Wait returns when the counter is zero
WaitReady(n) == n = 0

\* what Run does to the pool: once.Do makes the context, wg.Add(1)
RunContext(ctx) == IF ctx = "nil" THEN "open" ELSE ctx

\* the caller calls p.Run(f): goroutine g runs f
PoolRun(g, sleep) ==
    /\ ppc.main \in {"idle", "running"}
    /\ FreeDaemon(g)
    /\ pctx' = RunContext(pctx)
    /\ pwg' = pwg + 1
    /\ ppc' = [main |-> "running", f |-> [ppc.f EXCEPT ![g] = "f"]]
    /\ pplan' = [pplan EXCEPT ![g] = [sleep |-> sleep, by |-> "main"]]
    /\ UNCHANGED <<ptimer, pres>>
    /\ PoolFrame

\* the daemon function of g calls p.Run(f): goroutine h runs f
NestedRun(g, h, sleep) ==
    /\ ppc.f[g] = "f"
    /\ FreeDaemon(h)
    /\ pctx' = RunContext(pctx)
    /\ pwg' = pwg + 1
    /\ ppc' = [ppc EXCEPT !.f = [@ EXCEPT ![g] = "sleep", ![h] = "f"]]
    /\ pplan' = [pplan EXCEPT ![h] = [sleep |-> sleep, by |-> "daemon"]]
    /\ UNCHANGED <<ptimer, pres>>
    /\ PoolFrame

\* the daemon function of g starts no other function
NoNestedRun(g) ==
    /\ ppc.f[g] = "f"
    /\ ppc' = [ppc EXCEPT !.f[g] = "sleep"]
    /\ UNCHANGED <<pctx, pwg, pplan, ptimer, pres>>
    /\ PoolFrame

\* the daemon function calls ctx.Sleep(d): t := time.NewTimer(d)
PoolNewTimer(g) ==
    /\ ppc.f[g] = "sleep"
    /\ pplan[g].sleep
    /\ ptimer' = [ptimer EXCEPT ![g] = [state |-> "running", C |-> 0]]
    /\ ppc' = [ppc EXCEPT !.f[g] = "select"]
    /\ UNCHANGED <<pctx, pwg, pplan, pres>>
    /\ PoolFrame

\* the daemon function returns without a Sleep
PoolNoSleep(g) ==
    /\ ppc.f[g] = "sleep"
    /\ ~pplan[g].sleep
    /\ ppc' = [ppc EXCEPT !.f[g] = "defer"]
    /\ UNCHANGED <<pctx, pwg, pplan, ptimer, pres>>
    /\ PoolFrame

\* the select of Sleep
PoolSelect(g) ==
    /\ ppc.f[g] = "select"
    /\ \/ /\ ptimer[g].C = 1
          /\ ptimer' = [ptimer EXCEPT ![g].C = 0]
          /\ ppc' = [ppc EXCEPT !.f[g] = "timeup"]
       \/ /\ pctx = "closed"
          /\ ppc' = [ppc EXCEPT !.f[g] = "canceled"]
          /\ UNCHANGED ptimer
       \/ /\ ptimer[g].C = 0 /\ pctx = "open"
          /\ ppc' = [ppc EXCEPT !.f[g] = "parked"]
          /\ UNCHANGED ptimer
    /\ UNCHANGED <<pctx, pwg, pplan, pres>>
    /\ PoolFrame

\* the runtime fires the timer of g
PoolTimerFire(g) ==
    /\ ptimer[g].state = "running"
    /\ IF ppc.f[g] = "parked"
       THEN /\ ptimer' = [ptimer EXCEPT ![g].state = "fired"]
            /\ ppc' = [ppc EXCEPT !.f[g] = "timeup"]
       ELSE /\ ptimer' = [ptimer EXCEPT ![g] = [state |-> "fired", C |-> 1]]
            /\ UNCHANGED ppc
    /\ UNCHANGED <<pctx, pwg, pplan, pres>>
    /\ PoolFrame

\* case <-t.C: Sleep returns nil, and the daemon function returns
PoolSleepNil(g) ==
    /\ ppc.f[g] = "timeup"
    /\ pres' = [pres EXCEPT ![g] = "nil"]
    /\ ppc' = [ppc EXCEPT !.f[g] = "defer"]
    /\ UNCHANGED <<pctx, pwg, pplan, ptimer>>
    /\ PoolFrame

\* case <-c.done: if !t.Stop() { <-t.C }; Sleep returns ErrCanceled, and
\* the daemon function returns
PoolSleepCanceled(g) ==
    /\ ppc.f[g] = "canceled"
    /\ IF ptimer[g].state = "running"
       THEN ptimer' = [ptimer EXCEPT ![g].state = "stopped"]
       ELSE /\ CanReceive(ptimer[g].C)
            /\ ptimer' = [ptimer EXCEPT ![g].C = 0]
    /\ pres' = [pres EXCEPT ![g] = "ErrCanceled"]
    /\ ppc' = [ppc EXCEPT !.f[g] = "defer"]
    /\ UNCHANGED <<pctx, pwg, pplan>>
    /\ PoolFrame

\* defer d.wg.Done()
PoolDone(g) ==
    /\ ppc.f[g] = "defer"
    /\ pwg' = pwg - 1
    /\ ppc' = [ppc EXCEPT !.f[g] = "returned"]
    /\ UNCHANGED <<pctx, pplan, ptimer, pres>>
    /\ PoolFrame

\* Close: close(d.ctx.done).  d.ctx is nil until the first Run, and the
\* dereference of a nil pointer panics; otherwise the goroutines parked in
\* the select of Sleep are woken with the case of c.done
PoolClose ==
    /\ ppc.main \in {"idle", "running"}
    /\ IF pctx = "nil"
       THEN /\ ppc' = [ppc EXCEPT !.main = "panicked"]
            /\ UNCHANGED pctx
       ELSE /\ pctx' = "closed"
            /\ ppc' = [main |-> "waiting",
                       f |-> [g \in Daemons |->
                                IF ppc.f[g] = "parked" THEN "canceled" ELSE ppc.f[g]]]
    /\ UNCHANGED <<pwg, pplan, ptimer, pres>>
    /\ PoolFrame

\* Close: d.wg.Wait(), and Close returns
PoolWait ==
    /\ ppc.main = "waiting"
    /\ WaitReady(pwg)
    /\ ppc' = [ppc EXCEPT !.main = "closed"]
    /\ UNCHANGED <<pctx, pwg, pplan, ptimer, pres>>
    /\ PoolFrame

InitPool ==
    /\ InitTree
    /\ ConcAtRest
    /\ HandlerAtRest
    /\ ExtAtRest

\* the steps of the goroutine g
PoolSteps(g) ==
    \/ \E h \in Daemons : \E sleep \in BOOLEAN : NestedRun(g, h, sleep)
    \/ NoNestedRun(g)
    \/ PoolNewTimer(g)
    \/ PoolNoSleep(g)
    \/ PoolSelect(g)
    \/ PoolSleepNil(g)
    \/ PoolSleepCanceled(g)
    \/ PoolDone(g)

NextPool ==
    \/ \E g \in Daemons : \E sleep \in BOOLEAN : PoolRun(g, sleep)
    \/ \E g \in Daemons : PoolSteps(g)
    \/ \E g \in Daemons : PoolTimerFire(g)
    \/ PoolClose
    \/ PoolWait

SpecPool == InitPool /\ [][NextPool]_allVars

\* the scheduler runs every goroutine that can run, and a Close that can
\* go on does; nothing makes the caller call Close, and nothing makes a
\* timer fire
FairSpecPool ==
    /\ SpecPool
    /\ \A g \in Daemons : WF_allVars(PoolSteps(g))
    /\ WF_allVars(PoolWait)

\* ------------------------------------------------------------------ C31
\* the daemon functions Run has started
Started == {g \in Daemons : ppc.f[g] # "none"}

\* the step calls Close while the Sleep of g is blocked in its select
CloseDuringSleep(g) ==
    ppc.main = "running" /\ ppc'.main = "waiting" /\ ppc.f[g] = "parked"

\* C31: Close closes the Done channel of the one context that every
\* daemon function of the pool has, those started by daemon functions
\* included, so a daemon function whose Sleep is blocked takes the cancel
\* case; Close returns only after every daemon function started with Run
\* has returned, and it does return.
C31_PoolClose ==
    /\ [](ppc.main \in {"waiting", "closed"} => pctx = "closed")
    /\ [](ppc.main = "closed" => \A g \in Started : ppc.f[g] = "returned")
    /\ [](pwg = Cardinality({g \in Started : ppc.f[g] # "returned"}))
    /\ [][\A g \in Daemons : CloseDuringSleep(g) => ppc'.f[g] = "canceled"]_allVars
    /\ \A g \in Daemons : (ppc.f[g] = "canceled") ~> (pres[g] = "ErrCanceled")
    /\ (ppc.main = "waiting") ~> (ppc.main = "closed")

\* Close has returned after a daemon function and the function that one
\* started have been canceled in their Sleep
C31_Witness ==
    /\ ppc.main = "closed"
    /\ pplan[1].by = "main" /\ pplan[2].by = "daemon"
    /\ pres[1] = "ErrCanceled" /\ pres[2] = "ErrCanceled"

\* ------------------------------------------------------------------ C32
\* C32: Close on a pool on which Run was never called returns normally:
\* it does not panic.
C32_CloseWithoutRun == ppc.main # "panicked"

\* ============================================================== DebouncedFunc
\* the callers of Trigger and Cancel, the timer of time.AfterFunc and a
\* clock in units of Dur / 2.  A timer that is due fires before the clock
\* goes on, and firing calls Func.  The channel C of a timer made by
\* time.AfterFunc is nil.
DebounceFrame ==
    UNCHANGED <<vars, concVars, httpVars, pureVars, statVars, clientVars, daemonVars,
                poolVars>>

\* DebouncedFunc.Dur, in ticks
Dur == 2

\* a Reset that keeps the time the timer was set for (fault variant)
ResetWhen_Keep(t, now) == t.when

\* time.AfterFunc(d.Dur, ...) and Timer.Reset(d.Dur): the timer is due
\* Dur from now
ResetWhen(t, now) == now + Dur

\* a Stop that leaves the timer running (fault variant)
StopTimer_Running(t) == t

\* Timer.Stop: a pending timer is stopped
StopTimer(t) == [t EXCEPT !.state = IF @ = "pending" THEN "stopped" ELSE @]

\* what Timer.Stop returns: whether the call stopped the timer
Stopped(t) == t.state = "pending"

\* c calls Trigger or Cancel: d.mtx.Lock() is next
DebounceCall(c, op) ==
    /\ bpc[c] = "idle"
    /\ bcalls.n < MaxTriggers
    /\ bpc' = [bpc EXCEPT ![c] = IF op = "Trigger" THEN "trigger_lock" ELSE "cancel_lock"]
    /\ bcalls' = [bcalls EXCEPT !.n = @ + 1]
    /\ UNCHANGED <<bmtx, btmr, bnow>>
    /\ DebounceFrame

\* d.mtx.Lock() returns
DebounceLock(c) ==
    /\ bpc[c] \in {"trigger_lock", "cancel_lock"}
    /\ bmtx = "free"
    /\ bmtx' = c
    /\ bpc' = [bpc EXCEPT ![c] = IF @ = "trigger_lock" THEN "trigger" ELSE "cancel"]
    /\ UNCHANGED <<btmr, bnow, bcalls>>
    /\ DebounceFrame

\* Trigger: Reset of the timer, or AfterFunc when there is none; the
\* deferred Unlock
TriggerTimer(c) ==
    /\ bpc[c] = "trigger"
    /\ btmr' = [btmr EXCEPT !.state = "pending", !.when = ResetWhen(btmr, bnow)]
    /\ bcalls' = [bcalls EXCEPT !.trig = bnow, !.armed = TRUE, !.canceled = FALSE]
    /\ bmtx' = "free"
    /\ bpc' = [bpc EXCEPT ![c] = "idle"]
    /\ UNCHANGED bnow
    /\ DebounceFrame

\* Cancel: nothing to do without a timer; Stop; and when Stop returns
\* false, the receive from d.tmr.C, which is nil: the caller stays in the
\* receive with the mutex locked
CancelTimer(c) ==
    /\ bpc[c] = "cancel"
    /\ IF btmr.state = "nil"
       THEN /\ bmtx' = "free"
            /\ bpc' = [bpc EXCEPT ![c] = "idle"]
            /\ UNCHANGED <<btmr, bcalls>>
       ELSE IF Stopped(btmr)
       THEN /\ btmr' = StopTimer(btmr)
            /\ bcalls' = [bcalls EXCEPT !.armed = FALSE, !.canceled = TRUE]
            /\ bmtx' = "free"
            /\ bpc' = [bpc EXCEPT ![c] = "idle"]
       ELSE /\ bpc' = [bpc EXCEPT ![c] = "receive"]
            /\ UNCHANGED <<btmr, bcalls, bmtx>>
    /\ UNCHANGED bnow
    /\ DebounceFrame

\* the runtime runs the timer that is due: Func is called
DebounceFire ==
    /\ btmr.state = "pending"
    /\ btmr.when <= bnow
    /\ btmr' = [btmr EXCEPT !.state = "fired"]
    /\ bcalls' = [bcalls EXCEPT !.funcs = @ + 1, !.last = bnow, !.armed = FALSE]
    /\ UNCHANGED <<bpc, bmtx, bnow>>
    /\ DebounceFrame

\* time goes on when no timer is due
Tick ==
    /\ bnow < MaxTime
    /\ ~(btmr.state = "pending" /\ btmr.when <= bnow)
    /\ bnow' = bnow + 1
    /\ UNCHANGED <<bpc, bmtx, btmr, bcalls>>
    /\ DebounceFrame

InitDebounce ==
    /\ InitTree
    /\ ConcAtRest
    /\ HandlerAtRest
    /\ ExtAtRest

NextDebounce ==
    \/ \E c \in Callers : \E op \in {"Trigger", "Cancel"} : DebounceCall(c, op)
    \/ \E c \in Callers : DebounceLock(c)
    \/ \E c \in Callers : TriggerTimer(c)
    \/ \E c \in Callers : CancelTimer(c)
    \/ DebounceFire
    \/ Tick

SpecDebounce == InitDebounce /\ [][NextDebounce]_allVars

\* ------------------------------------------------------------------ C34
\* the step calls Func
FuncCalled == bcalls'.funcs = bcalls.funcs + 1

\* C34: Func is called only for a Trigger that is not answered yet, so
\* never without a preceding Trigger and once per burst, and exactly Dur
\* after the last Trigger; a Trigger while waiting moves the call to Dur
\* after itself; and the time span never passes without the call.
C34_Debounce ==
    /\ [][FuncCalled => (bcalls.armed /\ bcalls.trig >= 0 /\ bnow = bcalls.trig + Dur)]_allVars
    /\ [](bcalls.armed => (btmr.state = "pending" /\ btmr.when = bcalls.trig + Dur))
    /\ [](bcalls.armed => bnow <= bcalls.trig + Dur)
    /\ [][bcalls'.funcs \in {bcalls.funcs, bcalls.funcs + 1}]_allVars

\* Func was called once, Dur after the second Trigger of a burst
C34_Witness ==
    /\ bcalls.n = 2
    /\ bcalls.trig = 1
    /\ bcalls.funcs = 1
    /\ bcalls.last = 1 + Dur
    /\ \A c \in Callers : bpc[c] = "idle"

\* ------------------------------------------------------------------ C35
\* C35: after a Cancel that comes after a Trigger and before Dur has
\* elapsed, Func is not called, however much time passes, until a later
\* Trigger; after that Trigger it is called again.
C35_Cancel ==
    /\ [][FuncCalled => ~bcalls.canceled]_allVars
    /\ [](bcalls.canceled => btmr.state = "stopped")
    /\ [][(bcalls.canceled /\ ~bcalls'.canceled) => (bcalls'.armed /\ bcalls'.trig = bnow)]_allVars

\* a Trigger was canceled and the time span has passed without a call of
\* Func
C35_Witness ==
    /\ bcalls.canceled
    /\ bcalls.funcs = 0
    /\ bnow > bcalls.trig + Dur

\* Func was called for a Trigger that came after a Cancel
C35_CalledAgain ==
    /\ bcalls.n = 3
    /\ bcalls.funcs = 1
    /\ btmr.state = "fired"
    /\ bcalls.last = MaxTime

\* ------------------------------------------------------------------ C40
\* C40: Cancel returns and releases the mutex in every state: no caller
\* stays in Cancel waiting for a value from a channel that is nil.
C40_CancelReturns == \A c \in Callers : ~(bpc[c] = "receive" /\ btmr.C = "nil")

====
